---- MODULE Spec2Model ----
(***************************************************************************)
(* The OSConfig agent's control plane (src/main.go): main, run, the        *)
(* service loop, the task loop, the restart-marker watcher, the daily      *)
(* registration refresh and registerAgent, together with the collaborators *)
(* they call (tasker, agentconfig, the singleton lock, logger.Fatalf).     *)
(* Each goroutine is a program counter; one action is one step of one      *)
(* goroutine between two points where another goroutine can interleave.    *)
(***************************************************************************)
EXTENDS Integers, Sequences, FiniteSets, TLC

\* ---------------------------------------------------------------- bounds
\* Number of tasks the tasker accepts in one run of the process: the poll
\* ticker and the stream stop firing once this many tasks were enqueued.
MaxTasks == 2

\* The same number in the specification that follows runServiceLoop alone,
\* where the loop has to go round more than once after its first report.
MaxServiceTasks == 3

\* Number of 24-hour ticks the registration refresh goroutine is followed for.
MaxRefreshTicks == 2

\* Distinct non-empty file contents, and calls of checkState / enforceState
\* made in a row on one repository resource.
MaxContent == 2
MaxCalls == 3

\* Longest list of components of an apt repository and of GPG keys of a yum
\* repository that is rendered.
MaxComponents == 2
MaxGpgKeys == 3

\* if resp.ContentLength > 1024*1024
KeySizeCap == 1048576

VARIABLES
    arg,                    \* flag.Arg(0), as the class of value it has
    mainPc,                 \* position of the main goroutine
    mainIdx,                \* index of main's range loop over deferred functions
    exitCode,               \* -1 while the process runs, else its exit code
    ctxDone,                \* the root context has been cancelled
    cfgOK,                  \* the first WatchConfig call returned nil
    tnEnabled,              \* agentconfig.TaskNotificationEnabled()
    restartFile,            \* the restart marker file exists
    deferredFuncs,          \* var deferredFuncs []func()
    fatalFuncs,             \* logger.DeferredFatalFuncs
    ran,                    \* per goroutine: the deferred functions it has run, in order
    lockHeld,               \* the singleton lock is held by this process
    refreshPc,              \* position of the 24-hour registration goroutine
    regPc,                  \* per caller: position inside registerAgent
    regLast,                \* per caller: how the current / latest call went
    perPc,                  \* position of runInternalPeriodics
    perIdx,                 \* index of its range loop over deferredFuncs
    taskPc,                 \* position of runTaskLoop
    taskNotificationClient, \* "nil", "open" or "closed"
    pass,                   \* the current pass: registered, client before, action
    firstPass,              \* what the first pass of runTaskLoop did
    scen,                   \* passes, stream openings and closings so far
    wStream,                \* one-shot mode "w" started WaitForTaskNotification
    queue,                  \* tasker: FIFO of [id, label]
    running,                \* tasker: task bodies executing now
    started,                \* tasker: ids in the order their bodies started
    finished,               \* tasker: ids whose bodies returned
    nextId,                 \* tasker: id of the next accepted task
    closed,                 \* tasker: Close has been called
    closeReturned,          \* tasker: Close has returned
    lateStart,              \* a body started after Close returned
    ranFirstInventory,      \* runServiceLoop's local of that name
    perSince,               \* ticks runInternalPeriodics took with the marker present
    invRead,                \* what OSInventoryEnabled() returned in this iteration
    refreshHist,            \* 24-hour ticks taken, and GuestPoliciesEnabled() at the last
    focus,                  \* the part of the program whose history is recorded
    randN,                  \* what rand.Intn returned to runServiceLoop
    firstInventory,         \* seconds of the firstInventory timer, -1 before it is set
    managedRepository,      \* repositoryResource.managedRepository after validate
    files,                  \* the file at GpgFilePath and at RepoFilePath
    dirs,                   \* whether the parent directory of each path exists
    tmpFile,                \* the temporary file of util.AtomicWrite
    repoPc,                 \* position inside checkState / enforceState
    calls,                  \* the calls made so far, with what they returned
    before,                 \* files at the start of the call in progress or last made
    resource,               \* the RepositoryResource message: its oneof and fields
    rendered,               \* the bytes a *RepoContents function returned
    fetch,                  \* fetchGPGKey: the response, what was read, the return
    validation,             \* the two validate runs: what each met and returned
    apt                     \* a call into the apt functions: position, commands run, return

vars == <<arg, mainPc, mainIdx, exitCode, ctxDone, cfgOK, tnEnabled,
          restartFile, deferredFuncs, fatalFuncs, ran, lockHeld, refreshPc,
          regPc, regLast, perPc, perIdx, taskPc, taskNotificationClient,
          pass, firstPass, scen, wStream, queue, running, started,
          finished, nextId, closed, closeReturned, lateStart,
          ranFirstInventory, perSince, invRead, refreshHist, focus, randN,
          firstInventory, managedRepository, files, dirs, tmpFile, repoPc,
          calls, before, resource, rendered, fetch, validation, apt>>

\* Groups used in UNCHANGED clauses.
cfgVars    == <<cfgOK, tnEnabled>>
deferVars  == <<deferredFuncs, fatalFuncs, ran, lockHeld>>
regVars    == <<regPc, regLast>>
perVars    == <<perPc, perIdx>>
taskVars   == <<taskPc, taskNotificationClient, pass, firstPass, scen>>
queueVars  == <<queue, started, nextId>>
workerVars == <<running, finished, lateStart>>
closeVars  == <<closed, closeReturned>>
svcVars    == <<ranFirstInventory>>
histVars   == <<perSince, invRead, refreshHist>>
delayVars  == <<randN, firstInventory>>
renderVars == <<resource, rendered>>
unitVars   == <<delayVars, renderVars, fetch, validation, apt>>
repoVars   == <<managedRepository, files, dirs, tmpFile, repoPc, calls, before>>
streamVars == <<wStream>>

\* The state of package main.
loopVars ==
    <<arg, focus, mainPc, mainIdx, exitCode, ctxDone, cfgVars, restartFile,
      deferVars, refreshPc, regVars, perVars, taskVars, streamVars,
      queueVars, workerVars, closeVars, svcVars, histVars>>

\* flag.Arg(0).  "noservice" reaches runServiceLoop through main's default
\* case and run; "" and "run" go through runService first.
Args == {"noservice", "inventory", "gp", "w", "wuaupdates", "unknown"}

\* Every spelling the two switches name, and three they do not.
AllArgs ==
    {"", "run", "noservice", "inventory", "osinventory", "gp", "policies",
     "guestpolicies", "ospackage", "w", "waitfortasknotification", "ospatch",
     "wuaupdates", "unknown", "Run", "service"}

\* main: switch action := flag.Arg(0)
MainCase(a) ==
    CASE a = "wuaupdates"  -> "wuaupdates"
      [] a \in {"", "run"} -> "runService"
      [] OTHER             -> "run"

\* RunCase, had the case list of the guest policies mode lacked "ospackage".
RunCaseNoOspackage(a) ==
    CASE a \in {"", "run", "noservice"}                       -> "service"
      [] a \in {"inventory", "osinventory"}                   -> "inventory"
      [] a \in {"gp", "policies", "guestpolicies"}            -> "gp"
      [] a \in {"w", "waitfortasknotification", "ospatch"}    -> "w"
      [] OTHER                                                -> "unknown"

\* run: switch action := flag.Arg(0)
RunCase(a) ==
    CASE a \in {"", "run", "noservice"}                       -> "service"
      [] a \in {"inventory", "osinventory"}                   -> "inventory"
      [] a \in {"gp", "policies", "guestpolicies", "ospackage"} -> "gp"
      [] a \in {"w", "waitfortasknotification", "ospatch"}    -> "w"
      [] OTHER                                                -> "unknown"
Callers == {"task", "refresh"}

Running == exitCode = -1

\* The record of a pass of runTaskLoop before it has done anything.
NoPass == [registered |-> FALSE, before |-> "-", act |-> "-"]

\* ------------------------------------------------------------ the tasker
\* tasker.Enqueue(ctx, label, fn): append to the FIFO; refused once closed.
Enqueue(label) ==
    IF closed
    THEN UNCHANGED queueVars
    ELSE /\ queue' = Append(queue, [id |-> nextId, label |-> label])
         /\ nextId' = nextId + 1
         /\ UNCHANGED started

\* ------------------------------------------------- deferred cleanup chain
\* One call f() of a deferred function by goroutine g.
RunDeferred(g, f) ==
    /\ ran' = [ran EXCEPT ![g] = Append(@, f)]
    /\ lockHeld' = IF f = "unlock" THEN FALSE ELSE lockHeld

\* logger.Fatalf: run logger.DeferredFatalFuncs, then exit with code 1.
Fatalf ==
    /\ mainPc' = "fatal"
    /\ mainIdx' = 1

InitWith(f) ==
    /\ focus = f
    /\ arg \in AllArgs
    /\ mainPc = "main"
    /\ mainIdx = 0
    /\ exitCode = -1
    /\ ctxDone = FALSE
    /\ cfgOK = FALSE
    /\ tnEnabled = FALSE
    /\ restartFile = FALSE
    /\ deferredFuncs = <<>>
    /\ fatalFuncs = <<>>
    /\ ran = [g \in {"main", "periodics"} |-> <<>>]
    /\ lockHeld = FALSE
    /\ refreshPc = "off"
    /\ regPc = [g \in Callers |-> "idle"]
    /\ regLast = [g \in Callers |-> "none"]
    /\ perPc = "off"
    /\ perIdx = 0
    /\ taskPc = "off"
    /\ taskNotificationClient = "nil"
    /\ pass = NoPass
    /\ firstPass = [done |-> FALSE, tn |-> FALSE, registered |-> FALSE, act |-> "-"]
    /\ scen = [n |-> 0, opens |-> 0, closes |-> 0]
    /\ wStream = FALSE
    /\ queue = <<>>
    /\ running = {}
    /\ started = <<>>
    /\ finished = {}
    /\ nextId = 1
    /\ closed = FALSE
    /\ closeReturned = FALSE
    /\ lateStart = FALSE
    /\ ranFirstInventory = FALSE
    /\ perSince = 0
    /\ invRead = "-"
    /\ refreshHist = [ticks |-> 0, gp |-> FALSE]

\* A nil slice or pointer.
Nil == -1

\* A checksum field that has not been set: the empty string.
NoChecksum == <<>>

\* A path with no file, and a path whose file cannot be opened.
Missing == -1

Denied == -2

\* The two paths a repository resource manages.
Paths == {"GpgFilePath", "RepoFilePath"}

\* runServiceLoop has not reached its timer.
DelayOff ==
    /\ randN = 0
    /\ firstInventory = -1

\* No repository resource has been validated.
RepoOff ==
    /\ managedRepository = [kind |-> "none", Apt |-> FALSE,
                            GpgFileContents |-> Nil,
                            GpgChecksum |-> NoChecksum,
                            RepoFileContents |-> Nil,
                            RepoChecksum |-> NoChecksum]
    /\ files = [p \in Paths |-> Missing]
    /\ dirs = [p \in Paths |-> FALSE]
    /\ tmpFile = Missing
    /\ repoPc = "idle"
    /\ calls = <<>>
    /\ before = [p \in Paths |-> Missing]

\* No repository message has been rendered.
RenderOff ==
    /\ resource = [type |-> "unset"]
    /\ rendered = [by |-> "none", out |-> ""]

\* fetchGPGKey has not been called.
NoResponse == [getErr |-> FALSE, ContentLength |-> -1, sent |-> 0, key |-> "-"]

FetchOff ==
    fetch = [pc |-> "off", resp |-> NoResponse, read |-> 0, parsed |-> FALSE,
             ret |-> "-"]

\* A validate run that has not been made.
NoRun == [made |-> FALSE]

\* validate has not been called.
ValidateOff == validation = [first |-> NoRun, second |-> NoRun]

\* No function of the apt file of package packages has been called.
AptOff ==
    apt = [fn |-> "none", in |-> <<>>, pc |-> "off", args |-> <<>>,
           environ |-> <<>>, log |-> <<>>,
           out |-> [stdout |-> 0, stderr |-> {}, err |-> FALSE],
           ret |-> [returned |-> FALSE]]

\* The functions of the packages config and packages modelled on their
\* own, other than checkState and enforceState, have not been called.
ConfigOff == RenderOff /\ FetchOff /\ ValidateOff /\ AptOff

\* Of the functions modelled on their own, at most u has been called.
OffBut(u) ==
    /\ u = "delay" \/ DelayOff
    /\ u = "repository" \/ RepoOff
    /\ u \in {"render", "validate"} \/ RenderOff
    /\ u = "fetch" \/ FetchOff
    /\ u = "validate" \/ ValidateOff
    /\ u = "apt" \/ AptOff

\* The functions modelled on their own have not been called.
UnitOff == DelayOff /\ RepoOff /\ ConfigOff

\* The whole program; the histories of the service loop and of the marker
\* polls are not recorded.
Init == InitWith("all") /\ UnitOff /\ arg \in Args

\* Number of tasks the tasker accepts under the focus in force.
TaskCap == IF focus = "service" THEN MaxServiceTasks ELSE MaxTasks

\* ------------------------------------------------------------------ main
\* main: the switch on flag.Arg(0); wuaupdates never enters run.
MainSwitch ==
    /\ Running /\ mainPc = "main"
    /\ CASE MainCase(arg) = "wuaupdates" ->
              /\ \E code \in {0, 1} : exitCode' = code
              /\ mainPc' = "exited"
         [] MainCase(arg) = "runService" ->
              /\ mainPc' = "runservice"
              /\ UNCHANGED exitCode
         [] OTHER ->
              /\ mainPc' = "watchconfig"
              /\ UNCHANGED exitCode
    /\ UNCHANGED <<arg, focus, unitVars, repoVars, mainIdx, ctxDone, cfgVars, restartFile, deferVars,
                   refreshPc, regVars, perVars, taskVars, streamVars,
                   queueVars, workerVars, closeVars, svcVars, histVars>>

\* runService(ctx): on reaching the point where the agent runs it calls run.
runService ==
    /\ Running /\ mainPc = "runservice"
    /\ mainPc' = "watchconfig"
    /\ UNCHANGED <<arg, focus, unitVars, repoVars, mainIdx, exitCode, ctxDone, cfgVars,
                   restartFile, deferVars, refreshPc, regVars, perVars,
                   taskVars, streamVars, queueVars, workerVars, closeVars,
                   svcVars, histVars>>

\* RunWatchConfig, had the error only been logged: run goes on.
RunWatchConfigLogsError ==
    /\ Running /\ mainPc = "watchconfig"
    /\ \/ /\ tnEnabled' \in BOOLEAN
          /\ cfgOK' = TRUE
       \/ UNCHANGED <<tnEnabled, cfgOK>>
    /\ mainPc' = "loginit"
    /\ UNCHANGED <<arg, focus, unitVars, repoVars, mainIdx, exitCode, ctxDone, restartFile, deferVars,
                   refreshPc, regVars, perVars, taskVars, streamVars,
                   queueVars, workerVars, closeVars, svcVars, histVars>>

\* run: the first agentconfig.WatchConfig; an error is fatal.
RunWatchConfig ==
    /\ Running /\ mainPc = "watchconfig"
    /\ \/ /\ tnEnabled' \in BOOLEAN
          /\ cfgOK' = TRUE
          /\ mainPc' = "loginit"
          /\ UNCHANGED mainIdx
       \/ /\ Fatalf
          /\ UNCHANGED <<tnEnabled, cfgOK>>
    /\ UNCHANGED <<arg, focus, unitVars, repoVars, exitCode, ctxDone, restartFile, deferVars,
                   refreshPc, regVars, perVars, taskVars, streamVars,
                   queueVars, workerVars, closeVars, svcVars, histVars>>

\* run: logger.Init; its failure ends the process with os.Exit(1).
RunLoggerInit ==
    /\ Running /\ mainPc = "loginit"
    /\ \/ /\ mainPc' = "setup"
          /\ UNCHANGED exitCode
       \/ /\ exitCode' = 1
          /\ mainPc' = "exited"
    /\ UNCHANGED <<arg, focus, unitVars, repoVars, mainIdx, ctxDone, cfgVars, restartFile, deferVars,
                   refreshPc, regVars, perVars, taskVars, streamVars,
                   queueVars, workerVars, closeVars, svcVars, histVars>>

\* run: remove an old restart file (an error is only logged) and append the
\* three cleanup functions to deferredFuncs.
RunSetup ==
    /\ Running /\ mainPc = "setup"
    /\ \E removed \in BOOLEAN :
          restartFile' = IF removed THEN FALSE ELSE restartFile
    /\ deferredFuncs' = deferredFuncs \o <<"cleanupOldDir", "loggerClose", "logShutdown">>
    /\ mainPc' = "obtainlock"
    /\ UNCHANGED <<arg, focus, unitVars, repoVars, mainIdx, exitCode, ctxDone, cfgVars, fatalFuncs, ran,
                   lockHeld, refreshPc, regVars, perVars, taskVars, streamVars,
                   queueVars, workerVars, closeVars, svcVars, histVars>>

\* obtainLock: take the advisory lock and append its release hook; when the
\* lock is already held by another process, refuse to start (fatal).
obtainLock ==
    /\ Running /\ mainPc = "obtainlock"
    /\ \/ /\ lockHeld' = TRUE
          /\ deferredFuncs' = Append(deferredFuncs, "unlock")
          /\ mainPc' = "setfatal"
          /\ UNCHANGED mainIdx
       \/ /\ Fatalf
          /\ UNCHANGED <<lockHeld, deferredFuncs>>
    /\ UNCHANGED <<arg, focus, unitVars, repoVars, exitCode, ctxDone, cfgVars, restartFile, fatalFuncs,
                   ran, refreshPc, regVars, perVars, taskVars, streamVars,
                   queueVars, workerVars, closeVars, svcVars, histVars>>

\* RunSetFatalFuncs, had the copy been taken before obtainLock appended its hook.
RunSetFatalFuncsBeforeLock ==
    /\ Running /\ mainPc = "setfatal"
    /\ fatalFuncs' = fatalFuncs \o SubSeq(deferredFuncs, 1, Len(deferredFuncs) - 1)
    /\ mainPc' = "gorefresh"
    /\ UNCHANGED <<arg, focus, unitVars, repoVars, mainIdx, exitCode, ctxDone, cfgVars, restartFile,
                   deferredFuncs, ran, lockHeld, refreshPc, regVars, perVars,
                   taskVars, streamVars, queueVars, workerVars, closeVars,
                   svcVars, histVars>>

\* run: logger.DeferredFatalFuncs = append(logger.DeferredFatalFuncs, deferredFuncs...)
RunSetFatalFuncs ==
    /\ Running /\ mainPc = "setfatal"
    /\ fatalFuncs' = fatalFuncs \o deferredFuncs
    /\ mainPc' = "gorefresh"
    /\ UNCHANGED <<arg, focus, unitVars, repoVars, mainIdx, exitCode, ctxDone, cfgVars, restartFile,
                   deferredFuncs, ran, lockHeld, refreshPc, regVars, perVars,
                   taskVars, streamVars, queueVars, workerVars, closeVars,
                   svcVars, histVars>>

\* run: start the goroutine that re-registers the agent every 24 hours.
RunGoRefresh ==
    /\ Running /\ mainPc = "gorefresh"
    /\ refreshPc' = "wait"
    /\ mainPc' = "switch"
    /\ UNCHANGED <<arg, focus, unitVars, repoVars, mainIdx, exitCode, ctxDone, cfgVars, restartFile,
                   deferVars, regVars, perVars, taskVars, streamVars,
                   queueVars, workerVars, closeVars, svcVars, histVars>>

\* run: the switch on flag.Arg(0).
RunSwitch ==
    /\ Running /\ mainPc = "switch"
    /\ CASE RunCase(arg) = "service"   -> mainPc' = "svc_start" /\ UNCHANGED mainIdx
         [] RunCase(arg) = "inventory" -> mainPc' = "inv_newclient" /\ UNCHANGED mainIdx
         [] RunCase(arg) = "gp"        -> mainPc' = "gp_run" /\ UNCHANGED mainIdx
         [] RunCase(arg) = "w"         -> mainPc' = "w_newclient" /\ UNCHANGED mainIdx
         [] OTHER                      -> Fatalf
    /\ UNCHANGED <<arg, focus, unitVars, repoVars, exitCode, ctxDone, cfgVars, restartFile, deferVars,
                   refreshPc, regVars, perVars, taskVars, streamVars,
                   queueVars, workerVars, closeVars, svcVars, histVars>>

\* Return of run into main's cleanup loop.
RunReturn ==
    /\ mainPc' = "defers"
    /\ mainIdx' = 1

\* run, case "inventory": agentendpoint.NewClient; an error is fatal.
RunInventoryNewClient ==
    /\ Running /\ mainPc = "inv_newclient"
    /\ \/ mainPc' = "inv_enqueue" /\ UNCHANGED mainIdx
       \/ Fatalf
    /\ UNCHANGED <<arg, focus, unitVars, repoVars, exitCode, ctxDone, cfgVars, restartFile, deferVars,
                   refreshPc, regVars, perVars, taskVars, streamVars,
                   queueVars, workerVars, closeVars, svcVars, histVars>>

\* RunInventoryEnqueue, had run returned without calling tasker.Close().
RunInventoryEnqueueNoClose ==
    /\ Running /\ mainPc = "inv_enqueue"
    /\ Enqueue("Report OSInventory")
    /\ mainPc' = "defers"
    /\ mainIdx' = 1
    /\ UNCHANGED <<arg, focus, unitVars, repoVars, exitCode, ctxDone, cfgVars, restartFile,
                   deferVars, refreshPc, regVars, perVars, taskVars,
                   streamVars, workerVars, closeVars, svcVars, histVars>>

\* run, case "inventory": tasker.Enqueue(ctx, "Report OSInventory", ...).
RunInventoryEnqueue ==
    /\ Running /\ mainPc = "inv_enqueue"
    /\ Enqueue("Report OSInventory")
    /\ mainPc' = "close"
    /\ UNCHANGED <<arg, focus, unitVars, repoVars, mainIdx, exitCode, ctxDone, cfgVars, restartFile,
                   deferVars, refreshPc, regVars, perVars, taskVars,
                   streamVars, workerVars, closeVars, svcVars, histVars>>

\* run, case "gp": policies.Run(ctx), which hands the run to the tasker.
RunGuestPolicies ==
    /\ Running /\ mainPc = "gp_run"
    /\ Enqueue("Run GuestPolicies")
    /\ mainPc' = "close"
    /\ UNCHANGED <<arg, focus, unitVars, repoVars, mainIdx, exitCode, ctxDone, cfgVars, restartFile,
                   deferVars, refreshPc, regVars, perVars, taskVars,
                   streamVars, workerVars, closeVars, svcVars, histVars>>

\* run, one-shot modes: tasker.Close() is called; no task is accepted from now on.
RunCloseCall ==
    /\ Running /\ mainPc = "close"
    /\ closed' = TRUE
    /\ mainPc' = "closewait"
    /\ UNCHANGED <<arg, focus, unitVars, repoVars, mainIdx, exitCode, ctxDone, cfgVars, restartFile,
                   deferVars, refreshPc, regVars, perVars, taskVars,
                   streamVars, queueVars, workerVars, closeReturned, svcVars, histVars>>

\* tasker.Close() returns once the queue is drained and no body is running.
CloseCanReturn ==
    /\ queue = <<>>
    /\ running = {}

\* run, one-shot modes: tasker.Close() returns, then run returns.
RunCloseReturn ==
    /\ Running /\ mainPc = "closewait"
    /\ CloseCanReturn
    /\ closeReturned' = TRUE
    /\ RunReturn
    /\ UNCHANGED <<arg, focus, unitVars, repoVars, exitCode, ctxDone, cfgVars, restartFile, deferVars,
                   refreshPc, regVars, perVars, taskVars, streamVars,
                   queueVars, workerVars, closed, svcVars, histVars>>

\* run, case "w": NewClient (an error is fatal), then WaitForTaskNotification.
RunWaitNewClient ==
    /\ Running /\ mainPc = "w_newclient"
    /\ \/ /\ wStream' = TRUE
          /\ mainPc' = "w_wait"
          /\ UNCHANGED mainIdx
       \/ /\ Fatalf
          /\ UNCHANGED wStream
    /\ UNCHANGED <<arg, focus, unitVars, repoVars, exitCode, ctxDone, cfgVars, restartFile, deferVars,
                   refreshPc, regVars, perVars, taskVars,
                   queueVars, workerVars, closeVars, svcVars, histVars>>

\* run, case "w": select { case <-ctx.Done(): }
RunWaitDone ==
    /\ Running /\ mainPc = "w_wait"
    /\ ctxDone
    /\ RunReturn
    /\ UNCHANGED <<arg, focus, unitVars, repoVars, exitCode, ctxDone, cfgVars, restartFile, deferVars,
                   refreshPc, regVars, perVars, taskVars, streamVars,
                   queueVars, workerVars, closeVars, svcVars, histVars>>

\* logger.Fatalf, one step: the next function of DeferredFatalFuncs, or os.Exit(1).
FatalStep ==
    /\ Running /\ mainPc = "fatal"
    /\ IF mainIdx <= Len(fatalFuncs)
       THEN /\ RunDeferred("main", fatalFuncs[mainIdx])
            /\ mainIdx' = mainIdx + 1
            /\ UNCHANGED <<mainPc, exitCode>>
       ELSE /\ exitCode' = 1
            /\ mainPc' = "exited"
            /\ UNCHANGED <<mainIdx, ran, lockHeld>>
    /\ UNCHANGED <<arg, focus, unitVars, repoVars, ctxDone, cfgVars, restartFile, deferredFuncs,
                   fatalFuncs, refreshPc, regVars, perVars, taskVars,
                   streamVars, queueVars, workerVars, closeVars, svcVars, histVars>>

\* main: for _, f := range deferredFuncs { f() }, then main returns (exit 0).
MainDeferred ==
    /\ Running /\ mainPc = "defers"
    /\ IF mainIdx <= Len(deferredFuncs)
       THEN /\ RunDeferred("main", deferredFuncs[mainIdx])
            /\ mainIdx' = mainIdx + 1
            /\ UNCHANGED <<mainPc, exitCode>>
       ELSE /\ exitCode' = 0
            /\ mainPc' = "exited"
            /\ UNCHANGED <<mainIdx, ran, lockHeld>>
    /\ UNCHANGED <<arg, focus, unitVars, repoVars, ctxDone, cfgVars, restartFile, deferredFuncs,
                   fatalFuncs, refreshPc, regVars, perVars, taskVars,
                   streamVars, queueVars, workerVars, closeVars, svcVars, histVars>>

\* ------------------------------------------------------- runServiceLoop
\* go runInternalPeriodics(ctx)
SvcGoPeriodics ==
    /\ Running /\ mainPc = "svc_start"
    /\ perPc' = "check"
    /\ mainPc' = "svc_gotask"
    /\ UNCHANGED <<arg, focus, unitVars, repoVars, mainIdx, exitCode, ctxDone, cfgVars, restartFile,
                   deferVars, refreshPc, regVars, perIdx, taskVars,
                   streamVars, queueVars, workerVars, closeVars, svcVars, histVars>>

\* c := make(chan struct{}); go runTaskLoop(ctx, c)
SvcGoTaskLoop ==
    /\ Running /\ mainPc = "svc_gotask"
    /\ taskPc' = "pass"
    /\ mainPc' = "svc_recv"
    /\ UNCHANGED <<arg, focus, unitVars, repoVars, mainIdx, exitCode, ctxDone, cfgVars, restartFile,
                   deferVars, refreshPc, regVars, perVars,
                   taskNotificationClient, pass, firstPass, scen,
                   streamVars, queueVars, workerVars, closeVars, svcVars, histVars>>

\* SvcGate, had runServiceLoop not waited for the signal.
SvcGateNoWait ==
    /\ Running /\ mainPc = "svc_recv"
    /\ mainPc' = "svc_top"
    /\ UNCHANGED <<arg, focus, unitVars, repoVars, mainIdx, exitCode, ctxDone, cfgVars, restartFile,
                   deferVars, refreshPc, regVars, perVars, taskVars,
                   streamVars, queueVars, workerVars, closeVars, svcVars, histVars>>

\* <-c : the receive parks until runTaskLoop sends (c is unbuffered).
SvcGate ==
    /\ Running /\ mainPc = "svc_recv"
    /\ mainPc' = "svc_gate"
    /\ UNCHANGED <<arg, focus, unitVars, repoVars, mainIdx, exitCode, ctxDone, cfgVars, restartFile,
                   deferVars, refreshPc, regVars, perVars, taskVars,
                   streamVars, queueVars, workerVars, closeVars, svcVars, histVars>>

\* if agentconfig.GuestPoliciesEnabled() { policies.Run(ctx) }
\* The flag is whatever the snapshot holds when it is read.
SvcGuestPolicies ==
    /\ Running /\ mainPc = "svc_top"
    /\ \E gp \in BOOLEAN :
          IF gp THEN Enqueue("Run GuestPolicies") ELSE UNCHANGED queueVars
    /\ mainPc' = "svc_inv"
    /\ UNCHANGED <<arg, focus, unitVars, repoVars, mainIdx, exitCode, ctxDone, cfgVars, restartFile,
                   deferVars, refreshPc, regVars, perVars, taskVars,
                   streamVars, workerVars, closeVars, svcVars, histVars>>

\* if agentconfig.OSInventoryEnabled() { if !ranFirstInventory { select ... }
\*     tasker.Enqueue(ctx, "Report OSInventory", ...) }
SvcInventory ==
    /\ Running /\ mainPc = "svc_inv"
    /\ \E inv \in BOOLEAN :
          /\ invRead' = IF focus # "service" THEN invRead
                        ELSE IF inv THEN "on" ELSE "off"
          /\ IF ~inv
             THEN mainPc' = "svc_tick" /\ UNCHANGED queueVars
             ELSE IF ~ranFirstInventory
             THEN mainPc' = "svc_first" /\ UNCHANGED queueVars
             ELSE mainPc' = "svc_tick" /\ Enqueue("Report OSInventory")
    /\ UNCHANGED <<arg, focus, unitVars, repoVars, mainIdx, exitCode, ctxDone, cfgVars, restartFile,
                   deferVars, refreshPc, regVars, perVars, taskVars,
                   streamVars, workerVars, closeVars, svcVars, perSince,
                   refreshHist>>

\* SvcFirstInventory, had the assignment ranFirstInventory = true been missing.
SvcFirstInventoryNoFlag ==
    /\ Running /\ mainPc = "svc_first"
    /\ \/ /\ Enqueue("Report OSInventory")
          /\ mainPc' = "svc_tick"
          /\ UNCHANGED mainIdx
       \/ /\ ctxDone
          /\ RunReturn
          /\ UNCHANGED queueVars
    /\ UNCHANGED <<arg, focus, unitVars, repoVars, exitCode, ctxDone, cfgVars, restartFile, deferVars,
                   refreshPc, regVars, perVars, taskVars, streamVars,
                   workerVars, closeVars, svcVars, histVars>>

\* select { case <-ticker.C: case <-firstInventory: case <-ctx.Done(): return }
\* ranFirstInventory = true; tasker.Enqueue(ctx, "Report OSInventory", ...)
SvcFirstInventory ==
    /\ Running /\ mainPc = "svc_first"
    /\ \/ /\ ranFirstInventory' = TRUE
          /\ Enqueue("Report OSInventory")
          /\ mainPc' = "svc_tick"
          /\ UNCHANGED mainIdx
       \/ /\ ctxDone
          /\ RunReturn
          /\ UNCHANGED <<ranFirstInventory, queueVars>>
    /\ UNCHANGED <<arg, focus, unitVars, repoVars, exitCode, ctxDone, cfgVars, restartFile, deferVars,
                   refreshPc, regVars, perVars, taskVars, streamVars,
                   workerVars, closeVars, histVars>>

\* select { case <-ticker.C: continue; case <-ctx.Done(): return }
SvcTick ==
    /\ Running /\ mainPc = "svc_tick"
    /\ nextId < TaskCap
    /\ mainPc' = "svc_top"
    /\ invRead' = "-"
    /\ UNCHANGED <<arg, focus, unitVars, repoVars, mainIdx, exitCode, ctxDone, cfgVars, restartFile,
                   deferVars, refreshPc, regVars, perVars, taskVars,
                   streamVars, queueVars, workerVars, closeVars, svcVars,
                   perSince, refreshHist>>

SvcDone ==
    /\ Running /\ mainPc = "svc_tick"
    /\ ctxDone
    /\ RunReturn
    /\ UNCHANGED <<arg, focus, unitVars, repoVars, exitCode, ctxDone, cfgVars, restartFile, deferVars,
                   refreshPc, regVars, perVars, taskVars, streamVars,
                   queueVars, workerVars, closeVars, svcVars, histVars>>

\* -------------------------------------------------------- registerAgent
\* The caller's position when registerAgent returns to it.
ReturnTo(g) ==
    IF g = "task"
    THEN /\ taskPc' = "client"
         /\ pass' = [pass EXCEPT !.registered = TRUE]
         /\ UNCHANGED refreshPc
    ELSE /\ refreshPc' = "wait"
         /\ UNCHANGED <<taskPc, pass>>

\* agentendpoint.NewClient(ctx) inside registerAgent. regLast records the
\* call so far: "none" (first attempt under way), "failed" (an attempt
\* failed), "slept" (retrying after the sleep), "ok" (returned after a
\* first attempt that succeeded), "ok_retry" (returned after a later attempt
\* that succeeded). The record of the task loop's call is dropped at the end
\* of the pass that made it.
RegNewClient(g) ==
    /\ Running /\ regPc[g] = "newclient"
    /\ \/ /\ regPc' = [regPc EXCEPT ![g] = "register"]
          /\ UNCHANGED regLast
       \/ /\ regPc' = [regPc EXCEPT ![g] = "sleep"]
          /\ regLast' = [regLast EXCEPT ![g] = "failed"]
    /\ UNCHANGED <<arg, focus, unitVars, repoVars, mainPc, mainIdx, exitCode, ctxDone, cfgVars,
                   restartFile, deferVars, refreshPc, perVars, taskVars,
                   streamVars, queueVars, workerVars, closeVars, svcVars, histVars>>

\* RegRegister, had a failed RegisterAgent made registerAgent return.
RegRegisterGivesUp(g) ==
    /\ Running /\ regPc[g] = "register"
    /\ regPc' = [regPc EXCEPT ![g] = "idle"]
    /\ \/ regLast' = [regLast EXCEPT
                        ![g] = IF regLast[g] = "none" THEN "ok" ELSE "ok_retry"]
       \/ regLast' = [regLast EXCEPT ![g] = "failed"]
    /\ ReturnTo(g)
    /\ UNCHANGED <<arg, focus, unitVars, repoVars, mainPc, mainIdx, exitCode, ctxDone, cfgVars,
                   restartFile, deferVars, perVars, taskNotificationClient,
                   firstPass, scen, streamVars, queueVars, workerVars,
                   closeVars, svcVars, histVars>>

\* client.RegisterAgent(ctx): on success close the client and return,
\* on failure close the client and go to the sleep.
RegRegister(g) ==
    /\ Running /\ regPc[g] = "register"
    /\ \/ /\ regPc' = [regPc EXCEPT ![g] = "idle"]
          /\ regLast' = [regLast EXCEPT
                           ![g] = IF regLast[g] = "none" THEN "ok" ELSE "ok_retry"]
          /\ ReturnTo(g)
       \/ /\ regPc' = [regPc EXCEPT ![g] = "sleep"]
          /\ regLast' = [regLast EXCEPT ![g] = "failed"]
          /\ UNCHANGED <<taskPc, pass, refreshPc>>
    /\ UNCHANGED <<arg, focus, unitVars, repoVars, mainPc, mainIdx, exitCode, ctxDone, cfgVars,
                   restartFile, deferVars, perVars, taskNotificationClient,
                   firstPass, scen, streamVars, queueVars, workerVars,
                   closeVars, svcVars, histVars>>

\* time.Sleep(5 * time.Minute), then the next iteration of the for loop;
\* the context is not consulted.
RegSleep(g) ==
    /\ Running /\ regPc[g] = "sleep"
    /\ regPc' = [regPc EXCEPT ![g] = "newclient"]
    /\ regLast' = [regLast EXCEPT ![g] = "slept"]
    /\ UNCHANGED <<arg, focus, unitVars, repoVars, mainPc, mainIdx, exitCode, ctxDone, cfgVars,
                   restartFile, deferVars, refreshPc, perVars, taskVars,
                   streamVars, queueVars, workerVars, closeVars, svcVars, histVars>>

registerAgent(g) == RegNewClient(g) \/ RegRegister(g) \/ RegSleep(g)

\* Entry of registerAgent for caller g.
CallRegisterAgent(g) ==
    /\ regPc' = [regPc EXCEPT ![g] = "newclient"]
    /\ regLast' = [regLast EXCEPT ![g] = "none"]

\* RefreshTick, had the condition looked at TaskNotificationEnabled() only.
RefreshTickOnlyTaskNotification ==
    /\ Running /\ refreshPc = "wait"
    /\ refreshHist.ticks < MaxRefreshTicks
    /\ \E gp \in BOOLEAN :
          /\ refreshHist' = [ticks |-> refreshHist.ticks + 1, gp |-> gp]
          /\ IF tnEnabled
             THEN /\ CallRegisterAgent("refresh")
                  /\ refreshPc' = "registering"
             ELSE UNCHANGED <<regVars, refreshPc>>
    /\ UNCHANGED <<arg, focus, unitVars, repoVars, mainPc, mainIdx, exitCode, ctxDone, cfgVars,
                   restartFile, deferVars, perVars, taskVars, streamVars,
                   queueVars, workerVars, closeVars, svcVars, perSince,
                   invRead>>

\* The goroutine of run: on every 24-hour tick, registerAgent if task
\* notifications or guest policies are enabled.
RefreshTick ==
    /\ Running /\ refreshPc = "wait"
    /\ refreshHist.ticks < MaxRefreshTicks
    /\ \E gp \in BOOLEAN :
          /\ refreshHist' = [ticks |-> refreshHist.ticks + 1, gp |-> gp]
          /\ IF tnEnabled \/ gp
             THEN /\ CallRegisterAgent("refresh")
                  /\ refreshPc' = "registering"
             ELSE UNCHANGED <<regVars, refreshPc>>
    /\ UNCHANGED <<arg, focus, unitVars, repoVars, mainPc, mainIdx, exitCode, ctxDone, cfgVars,
                   restartFile, deferVars, perVars, taskVars, streamVars,
                   queueVars, workerVars, closeVars, svcVars, perSince,
                   invRead>>

\* ---------------------------------------------------------- runTaskLoop
\* Top of the for loop: registerAgent only if enabled and the client is nil.
NeedsRegister(tn, client) == tn /\ client = "nil"

TaskPassStart ==
    /\ Running /\ taskPc = "pass"
    /\ IF NeedsRegister(tnEnabled, taskNotificationClient)
       THEN /\ CallRegisterAgent("task")
            /\ taskPc' = "registering"
       ELSE /\ taskPc' = "client"
            /\ UNCHANGED regVars
    /\ UNCHANGED <<arg, focus, unitVars, repoVars, mainPc, mainIdx, exitCode, ctxDone, cfgVars,
                   restartFile, deferVars, refreshPc, perVars,
                   taskNotificationClient, pass, firstPass, scen,
                   streamVars, queueVars, workerVars, closeVars, svcVars, histVars>>

\* ClientAct, had the else-if branch that closes the client been missing.
ClientActNeverCloses(tn, client, created) ==
    IF tn /\ client \in {"nil", "closed"}
    THEN IF created THEN "opened" ELSE "create_failed"
    ELSE "none"

\* ClientAct, had the first branch not tested the client for nil or Closed().
ClientActAlwaysCreates(tn, client, created) ==
    IF tn
    THEN IF created THEN "opened" ELSE "create_failed"
    ELSE IF client = "open"
    THEN "closed"
    ELSE "none"

\* What the if / else-if on the client does in one pass:
\*   "opened"        NewClient succeeded and WaitForTaskNotification was started
\*   "create_failed" NewClient returned an error
\*   "closed"        the open client was closed
\*   "none"          neither branch was taken
ClientAct(tn, client, created) ==
    IF tn /\ client \in {"nil", "closed"}
    THEN IF created THEN "opened" ELSE "create_failed"
    ELSE IF ~tn /\ client = "open"
    THEN "closed"
    ELSE "none"

\* The variable taskNotificationClient after the pass; a failed NewClient
\* leaves the nil it returned in the variable.
ClientAfter(client, act) ==
    CASE act = "opened"        -> "open"
      [] act = "create_failed" -> "nil"
      [] act = "closed"        -> "closed"
      [] OTHER                 -> client

\* taskNotificationClient.Close() waits for a task of the stream that is running.
StreamTaskRunning == \E t \in running : t.label = "Task"

\* The passes so far, while they are: flag false; flag true and the client
\* created; flag false. n = -1 once the passes differ from that.
ScenNext(tn, created, act) ==
    IF \/ scen.n = 0 /\ ~tn
       \/ scen.n = 1 /\ tn /\ created
       \/ scen.n = 2 /\ ~tn
    THEN [n      |-> scen.n + 1,
          opens  |-> scen.opens + (IF act = "opened" THEN 1 ELSE 0),
          closes |-> scen.closes + (IF act = "closed" THEN 1 ELSE 0)]
    ELSE [n |-> -1, opens |-> 0, closes |-> 0]

\* if enabled && (client == nil || client.Closed()) { NewClient; WaitForTaskNotification }
\* else if !enabled && client != nil && !client.Closed() { client.Close() }
TaskClient ==
    /\ Running /\ taskPc = "client"
    /\ \E created \in BOOLEAN :
        LET act == ClientAct(tnEnabled, taskNotificationClient, created) IN
          /\ act = "closed" => ~StreamTaskRunning
          /\ taskNotificationClient' = ClientAfter(taskNotificationClient, act)
          /\ pass' = [pass EXCEPT !.before = taskNotificationClient, !.act = act]
          /\ firstPass' = IF ~firstPass.done
                          THEN [done |-> TRUE, tn |-> tnEnabled,
                                registered |-> pass.registered, act |-> act]
                          ELSE firstPass
          /\ scen' = ScenNext(tnEnabled, created, act)
    /\ taskPc' = "signal"
    /\ UNCHANGED <<arg, focus, unitVars, repoVars, mainPc, mainIdx, exitCode, ctxDone, cfgVars,
                   restartFile, deferVars, refreshPc, regVars, perVars,
                   streamVars, queueVars, workerVars, closeVars, svcVars, histVars>>

\* select { case c <- struct{}{}: default: } : the send succeeds only if
\* runServiceLoop is parked in its receive; it then goes on to create its
\* ticker and enters its loop.
TaskSignal ==
    /\ Running /\ taskPc = "signal"
    /\ IF mainPc = "svc_gate"
       THEN mainPc' = "svc_top"
       ELSE UNCHANGED mainPc
    /\ taskPc' = "watch"
    /\ pass' = NoPass
    /\ regLast' = [regLast EXCEPT !["task"] = "none"]
    /\ UNCHANGED <<arg, focus, unitVars, repoVars, mainIdx, exitCode, ctxDone, cfgVars, restartFile,
                   deferVars, refreshPc, regPc, perVars,
                   taskNotificationClient, firstPass, scen, streamVars,
                   queueVars, workerVars, closeVars, svcVars, histVars>>

\* agentconfig.WatchConfig(ctx) returns, with a new snapshot or without one
\* (time-out, error, cancelled context; an error is only logged); then
\* select { case <-ctx.Done(): return; default: continue }
TaskWatchConfig ==
    /\ Running /\ taskPc = "watch"
    /\ tnEnabled' \in BOOLEAN
    /\ taskPc' = IF ctxDone THEN "returned" ELSE "pass"
    /\ UNCHANGED <<arg, focus, unitVars, repoVars, mainPc, mainIdx, exitCode, ctxDone, cfgOK,
                   restartFile, deferVars, refreshPc, regVars, perVars,
                   taskNotificationClient, pass, firstPass, scen,
                   streamVars, queueVars, workerVars, closeVars, svcVars, histVars>>

\* ------------------------------------------------- runInternalPeriodics
\* os.Stat(agentconfig.RestartFile())
PerCheck ==
    /\ Running /\ perPc = "check"
    /\ perPc' = IF restartFile THEN "close" ELSE "wait"
    /\ UNCHANGED <<arg, focus, unitVars, repoVars, mainPc, mainIdx, exitCode, ctxDone, cfgVars,
                   restartFile, deferVars, refreshPc, regVars, perIdx,
                   taskVars, streamVars, queueVars, workerVars, closeVars,
                   svcVars, histVars>>

\* tasker.Close() is called.
PerCloseCall ==
    /\ Running /\ perPc = "close"
    /\ closed' = TRUE
    /\ perPc' = "closewait"
    /\ UNCHANGED <<arg, focus, unitVars, repoVars, mainPc, mainIdx, exitCode, ctxDone, cfgVars,
                   restartFile, deferVars, refreshPc, regVars, perIdx,
                   taskVars, streamVars, queueVars, workerVars,
                   closeReturned, svcVars, histVars>>

\* tasker.Close() returns.
PerCloseReturn ==
    /\ Running /\ perPc = "closewait"
    /\ CloseCanReturn
    /\ closeReturned' = TRUE
    /\ perPc' = "defers"
    /\ perIdx' = 1
    /\ UNCHANGED <<arg, focus, unitVars, repoVars, mainPc, mainIdx, exitCode, ctxDone, cfgVars,
                   restartFile, deferVars, refreshPc, regVars, taskVars,
                   streamVars, queueVars, workerVars, closed, svcVars, histVars>>

\* PerDeferred, had the functions been run last-registered first.
PerDeferredReversed ==
    /\ Running /\ perPc = "defers"
    /\ IF perIdx <= Len(deferredFuncs)
       THEN /\ RunDeferred("periodics",
                           deferredFuncs[Len(deferredFuncs) - perIdx + 1])
            /\ perIdx' = perIdx + 1
            /\ UNCHANGED <<perPc, exitCode>>
       ELSE /\ exitCode' = 2
            /\ perPc' = "exited"
            /\ UNCHANGED <<perIdx, ran, lockHeld>>
    /\ UNCHANGED <<arg, focus, unitVars, repoVars, mainPc, mainIdx, ctxDone, cfgVars, restartFile,
                   deferredFuncs, fatalFuncs, refreshPc, regVars, taskVars,
                   streamVars, queueVars, workerVars, closeVars, svcVars, histVars>>

\* for _, f := range deferredFuncs { f() }; os.Exit(2)
PerDeferred ==
    /\ Running /\ perPc = "defers"
    /\ IF perIdx <= Len(deferredFuncs)
       THEN /\ RunDeferred("periodics", deferredFuncs[perIdx])
            /\ perIdx' = perIdx + 1
            /\ UNCHANGED <<perPc, exitCode>>
       ELSE /\ exitCode' = 2
            /\ perPc' = "exited"
            /\ UNCHANGED <<perIdx, ran, lockHeld>>
    /\ UNCHANGED <<arg, focus, unitVars, repoVars, mainPc, mainIdx, ctxDone, cfgVars, restartFile,
                   deferredFuncs, fatalFuncs, refreshPc, regVars, taskVars,
                   streamVars, queueVars, workerVars, closeVars, svcVars, histVars>>

\* PerTick, had the tick not led back to the os.Stat of the marker.
PerTickNoCheck ==
    /\ Running /\ perPc = "wait"
    /\ perPc' = "wait"
    /\ perSince < 2
    /\ perSince' = IF focus # "periodics" THEN perSince
                   ELSE IF restartFile THEN perSince + 1 ELSE 0
    /\ UNCHANGED <<arg, focus, unitVars, repoVars, mainPc, mainIdx, exitCode, ctxDone, cfgVars,
                   restartFile, deferVars, refreshPc, regVars, perIdx,
                   taskVars, streamVars, queueVars, workerVars, closeVars,
                   svcVars, invRead, refreshHist>>

\* select { case <-ticker.C: continue; case <-ctx.Done(): return }
PerTick ==
    /\ Running /\ perPc = "wait"
    /\ perPc' = "check"
    /\ perSince' = IF focus # "periodics" THEN perSince
                   ELSE IF restartFile THEN perSince + 1 ELSE 0
    /\ UNCHANGED <<arg, focus, unitVars, repoVars, mainPc, mainIdx, exitCode, ctxDone, cfgVars,
                   restartFile, deferVars, refreshPc, regVars, perIdx,
                   taskVars, streamVars, queueVars, workerVars, closeVars,
                   svcVars, invRead, refreshHist>>

PerDone ==
    /\ Running /\ perPc = "wait"
    /\ ctxDone
    /\ perPc' = "returned"
    /\ UNCHANGED <<arg, focus, unitVars, repoVars, mainPc, mainIdx, exitCode, ctxDone, cfgVars,
                   restartFile, deferVars, refreshPc, regVars, perIdx,
                   taskVars, streamVars, queueVars, workerVars, closeVars,
                   svcVars, histVars>>

\* ------------------------------------------------------ the tasker worker
\* WorkerCanStart, had a second worker been able to take a task.
WorkerCanStartWhileRunning == queue # <<>>

\* The single worker takes the head of the FIFO when no body is running.
WorkerCanStart == queue # <<>> /\ running = {}

WorkerPick == Head(queue)

WorkerStart ==
    /\ Running /\ WorkerCanStart
    /\ running' = running \cup {WorkerPick}
    /\ queue' = SelectSeq(queue, LAMBDA t : t # WorkerPick)
    /\ started' = Append(started, WorkerPick.id)
    /\ lateStart' = (lateStart \/ closeReturned)
    /\ UNCHANGED <<arg, focus, unitVars, repoVars, mainPc, mainIdx, exitCode, ctxDone, cfgVars,
                   restartFile, deferVars, refreshPc, regVars, perVars,
                   taskVars, streamVars, nextId, finished, closeVars,
                   svcVars, histVars>>

\* The running body returns.
WorkerFinish ==
    /\ Running
    /\ \E t \in running :
          /\ running' = running \ {t}
          /\ finished' = finished \cup {t.id}
    /\ UNCHANGED <<arg, focus, unitVars, repoVars, mainPc, mainIdx, exitCode, ctxDone, cfgVars,
                   restartFile, deferVars, refreshPc, regVars, perVars,
                   taskVars, streamVars, queueVars, lateStart, closeVars,
                   svcVars, histVars>>

\* ---------------------------------------------------------- environment
\* SIGINT / SIGTERM: main's signal goroutine calls cncl().
Signal ==
    /\ Running /\ ~ctxDone
    /\ ctxDone' = TRUE
    /\ UNCHANGED <<arg, focus, unitVars, repoVars, mainPc, mainIdx, exitCode, cfgVars, restartFile,
                   deferVars, refreshPc, regVars, perVars, taskVars,
                   streamVars, queueVars, workerVars, closeVars, svcVars, histVars>>

\* Somebody creates the restart marker file.
CreateRestartFile ==
    /\ Running /\ ~restartFile
    /\ restartFile' = TRUE
    /\ UNCHANGED <<arg, focus, unitVars, repoVars, mainPc, mainIdx, exitCode, ctxDone, cfgVars,
                   deferVars, refreshPc, regVars, perVars, taskVars,
                   streamVars, queueVars, workerVars, closeVars, svcVars, histVars>>

\* The task-notification stream delivers a task; its handler enqueues it.
StreamTask ==
    /\ Running
    /\ taskNotificationClient = "open" \/ wStream
    /\ nextId <= TaskCap
    /\ Enqueue("Task")
    /\ UNCHANGED <<arg, focus, unitVars, repoVars, mainPc, mainIdx, exitCode, ctxDone, cfgVars,
                   restartFile, deferVars, refreshPc, regVars, perVars,
                   taskVars, streamVars, workerVars, closeVars, svcVars, histVars>>

\* ------------------------------------------------------ specifications
Next ==
    \/ MainSwitch \/ RunWatchConfig \/ RunLoggerInit \/ RunSetup
    \/ obtainLock \/ RunSetFatalFuncs \/ RunGoRefresh \/ RunSwitch
    \/ RunInventoryNewClient \/ RunInventoryEnqueue \/ RunGuestPolicies
    \/ RunCloseCall \/ RunCloseReturn \/ RunWaitNewClient \/ RunWaitDone
    \/ FatalStep \/ MainDeferred
    \/ SvcGoPeriodics \/ SvcGoTaskLoop \/ SvcGate \/ SvcGuestPolicies
    \/ SvcInventory \/ SvcFirstInventory \/ SvcTick \/ SvcDone
    \/ registerAgent("task")
    \/ TaskPassStart \/ TaskClient \/ TaskSignal \/ TaskWatchConfig
    \/ PerCheck \/ PerCloseCall \/ PerCloseReturn \/ PerDeferred
    \/ PerTick \/ PerDone
    \/ WorkerStart \/ WorkerFinish
    \/ Signal \/ CreateRestartFile \/ StreamTask

\* The process during its first 24 hours: the ticker of the registration
\* refresh goroutine has not fired yet.
Spec == Init /\ [][Next]_vars

\* The steps of each goroutine, for the fairness the Go scheduler gives.
MainStep ==
    \/ MainSwitch \/ RunWatchConfig \/ RunLoggerInit \/ RunSetup
    \/ obtainLock \/ RunSetFatalFuncs \/ RunGoRefresh \/ RunSwitch
    \/ RunInventoryNewClient \/ RunInventoryEnqueue \/ RunGuestPolicies
    \/ RunCloseCall \/ RunCloseReturn \/ RunWaitNewClient \/ RunWaitDone
    \/ FatalStep \/ MainDeferred
    \/ SvcGoPeriodics \/ SvcGoTaskLoop \/ SvcGate \/ SvcGuestPolicies
    \/ SvcInventory \/ SvcFirstInventory \/ SvcTick \/ SvcDone

TaskStep ==
    \/ registerAgent("task")
    \/ TaskPassStart \/ TaskClient \/ TaskSignal \/ TaskWatchConfig

PerStep ==
    \/ PerCheck \/ PerCloseCall \/ PerCloseReturn \/ PerDeferred
    \/ PerTick \/ PerDone

WorkerStep == WorkerStart \/ WorkerFinish

\* Every goroutine that can take a step eventually takes one (timers fire,
\* calls return); a select whose ctx.Done() case is ready again and again
\* eventually takes it, because its ticker is not ready all the time.
FairSpec ==
    /\ Spec
    /\ WF_vars(MainStep) /\ WF_vars(TaskStep)
    /\ WF_vars(PerStep) /\ WF_vars(WorkerStep)
    /\ SF_vars(SvcDone) /\ SF_vars(PerDone)

\* The registration refresh goroutine of run, from the start of the process.
NextRefresh ==
    \/ MainSwitch \/ RunWatchConfig \/ RunLoggerInit \/ RunSetup
    \/ obtainLock \/ RunSetFatalFuncs \/ RunGoRefresh \/ FatalStep
    \/ RefreshTick \/ registerAgent("refresh")
    \/ Signal \/ CreateRestartFile

SpecRefresh == Init /\ [][NextRefresh]_vars

\* runInternalPeriodics and the steps of main that start it and end the
\* process, with the ticks it takes while the marker is present counted.
NextPeriodics ==
    \/ MainSwitch \/ RunWatchConfig \/ RunLoggerInit \/ RunSetup
    \/ obtainLock \/ RunSetFatalFuncs \/ RunGoRefresh \/ RunSwitch
    \/ FatalStep \/ MainDeferred
    \/ SvcGoPeriodics \/ SvcGoTaskLoop \/ SvcGate \/ SvcGuestPolicies
    \/ SvcInventory \/ SvcFirstInventory \/ SvcTick \/ SvcDone
    \/ registerAgent("task")
    \/ TaskPassStart \/ TaskClient \/ TaskSignal \/ TaskWatchConfig
    \/ PerCheck \/ PerCloseCall \/ PerCloseReturn \/ PerDeferred
    \/ PerTick \/ PerDone
    \/ WorkerStart \/ WorkerFinish
    \/ Signal \/ CreateRestartFile

InitPeriodics == InitWith("periodics") /\ UnitOff /\ arg = "noservice"

SpecPeriodics == InitPeriodics /\ [][NextPeriodics]_vars

\* runServiceLoop with the task loop that opens its gate and the worker,
\* with the value OSInventoryEnabled() returned in each iteration recorded.
NextService ==
    \/ MainSwitch \/ RunWatchConfig \/ RunLoggerInit \/ RunSetup
    \/ obtainLock \/ RunSetFatalFuncs \/ RunGoRefresh \/ RunSwitch
    \/ FatalStep \/ MainDeferred
    \/ SvcGoPeriodics \/ SvcGoTaskLoop \/ SvcGate \/ SvcGuestPolicies
    \/ SvcInventory \/ SvcFirstInventory \/ SvcTick \/ SvcDone
    \/ registerAgent("task")
    \/ TaskPassStart \/ TaskClient \/ TaskSignal \/ TaskWatchConfig
    \/ PerCheck \/ PerTick \/ PerDone
    \/ WorkerStart \/ WorkerFinish
    \/ Signal

InitService == InitWith("service") /\ UnitOff /\ arg = "noservice"

SpecService == InitService /\ [][NextService]_vars

\* The two switches on flag.Arg(0), for every spelling, up to the first
\* steps of each mode.
NextModes ==
    \/ MainSwitch \/ runService
    \/ RunWatchConfig \/ RunLoggerInit \/ RunSetup
    \/ obtainLock \/ RunSetFatalFuncs \/ RunGoRefresh \/ RunSwitch
    \/ RunInventoryNewClient \/ RunInventoryEnqueue \/ RunGuestPolicies
    \/ RunCloseCall \/ RunCloseReturn \/ RunWaitNewClient \/ RunWaitDone
    \/ FatalStep \/ MainDeferred
    \/ SvcGoPeriodics \/ SvcGoTaskLoop \/ SvcGate
    \/ WorkerStart \/ WorkerFinish
    \/ Signal

InitModes == InitWith("modes") /\ UnitOff

SpecModes == InitModes /\ [][NextModes]_vars

\* ------------------------------------------- the firstInventory timer
\* rand.Intn(120)+180: the argument of rand.Intn and the added seconds.
IntnArg == 120
DelayBase == 180

\* rand.Intn(n) returns a value of [0, n).
Intn(n) == 0 .. (n - 1)

\* FirstInventoryDelay, had the added 180 seconds been missing.
FirstInventoryDelayNoBase(r) == r

\* time.Duration(rand.Intn(120)+180) * time.Second, in seconds.
FirstInventoryDelay(r) == r + DelayBase

\* firstInventory := time.After(...)
SvcSetFirstInventory ==
    /\ firstInventory = -1
    /\ firstInventory' = FirstInventoryDelay(randN)
    /\ UNCHANGED <<loopVars, randN, repoVars, renderVars, fetch, validation,
                   apt>>

\* runServiceLoop at line 280, for every value rand.Intn can return.
InitDelay ==
    /\ ConfigOff
    /\ InitWith("delay")
    /\ arg = "noservice"
    /\ randN \in Intn(IntnArg)
    /\ firstInventory = -1
    /\ RepoOff

SpecDelay == InitDelay /\ [][SvcSetFirstInventory]_vars

\* ------------------------------------------------- repositoryResource
\* Everything of the program outside the repository resource.
agentVars == <<loopVars, unitVars>>

\* File contents: 0 is the empty file, the others are non-empty.
Contents == 0 .. MaxContent

\* What a path holds: no file, a file that cannot be opened, or contents.
FileStates == {Missing, Denied} \cup Contents

Kinds == {"apt", "googet", "yum", "zypper"}

\* checksum(r): the SHA-256 of the bytes, a different one for different bytes.
checksum(c) == <<"sha256", c>>

\* validate: the managedRepository of a resource of kind k whose repo file
\* contents are c and whose serialized key is g (Nil when there is none).
Validated(k, c, g) ==
    [kind             |-> k,
     Apt              |-> k = "apt",
     GpgFileContents  |-> g,
     GpgChecksum      |-> IF g = Nil THEN NoChecksum ELSE checksum(g),
     RepoFileContents |-> c,
     RepoChecksum     |-> checksum(c)]

\* if r.managedRepository.Apt != nil && r.managedRepository.Apt.GpgFileContents != nil
ManagesKey(mr) == mr.Apt /\ mr.GpgFileContents # Nil

\* contentsMatch, had it opened the file with os.O_CREATE.
contentsMatchCreates(f, path, chksum) ==
    IF f[path] = Missing
    THEN [match |-> checksum(0) = chksum, err |-> FALSE,
          files |-> [f EXCEPT ![path] = 0]]
    ELSE IF f[path] = Denied
    THEN [match |-> FALSE, err |-> TRUE, files |-> f]
    ELSE [match |-> checksum(f[path]) = chksum, err |-> FALSE, files |-> f]

\* contentsMatch(ctx, path, chksum): what it returns and the files after it.
contentsMatch(f, path, chksum) ==
    IF f[path] = Missing
    THEN [match |-> FALSE, err |-> FALSE, files |-> f]
    ELSE IF f[path] = Denied
    THEN [match |-> FALSE, err |-> TRUE, files |-> f]
    ELSE [match |-> checksum(f[path]) = chksum, err |-> FALSE, files |-> f]

\* checkState, had it looked at the repo file before the key.
checkStateRepoFirstResult(mr, f) ==
    LET r == contentsMatch(f, "RepoFilePath", mr.RepoChecksum)
        k == contentsMatch(r.files, "GpgFilePath", mr.GpgChecksum)
    IN  IF r.err \/ ~r.match \/ ~ManagesKey(mr)
        THEN [inDesiredState |-> r.match, err |-> r.err, files |-> r.files]
        ELSE [inDesiredState |-> k.match, err |-> k.err, files |-> k.files]

\* checkState: what it returns and the files after it.
checkStateResult(mr, f) ==
    LET k == contentsMatch(f, "GpgFilePath", mr.GpgChecksum)
        r == contentsMatch(IF ManagesKey(mr) THEN k.files ELSE f,
                           "RepoFilePath", mr.RepoChecksum)
    IN  IF ManagesKey(mr) /\ k.err
        THEN [inDesiredState |-> FALSE, err |-> TRUE, files |-> k.files]
        ELSE IF ManagesKey(mr) /\ ~k.match
        THEN [inDesiredState |-> FALSE, err |-> FALSE, files |-> k.files]
        ELSE [inDesiredState |-> r.match, err |-> r.err, files |-> r.files]

\* The return of a call: it is added to the calls made.
Return(op, ok, err) ==
    /\ repoPc' = "idle"
    /\ calls' = Append(calls, [op |-> op, inDesiredState |-> ok, err |-> err])

\* One call of checkState.
checkState ==
    /\ repoPc = "idle" /\ Len(calls) < MaxCalls
    /\ LET res == checkStateResult(managedRepository, files) IN
          /\ files' = res.files
          /\ Return("check", res.inDesiredState, res.err)
    /\ before' = files
    /\ UNCHANGED <<agentVars, managedRepository, dirs, tmpFile>>

\* enforceState is called.
EnforceStart ==
    /\ repoPc = "idle" /\ Len(calls) < MaxCalls
    /\ repoPc' = IF ManagesKey(managedRepository) THEN "key_open" ELSE "mkdir"
    /\ before' = files
    /\ UNCHANGED <<agentVars, managedRepository, files, dirs, tmpFile, calls>>

\* ioutil.WriteFile(GpgFilePath, ...): the open with O_WRONLY|O_CREATE|O_TRUNC.
\* It fails when the directory is missing or the file cannot be opened;
\* otherwise the file is there and empty.
EnforceKeyOpen ==
    /\ repoPc = "key_open"
    /\ IF ~dirs["GpgFilePath"] \/ files["GpgFilePath"] = Denied
       THEN /\ Return("enforce", FALSE, TRUE)
            /\ UNCHANGED files
       ELSE /\ files' = [files EXCEPT !["GpgFilePath"] = 0]
            /\ repoPc' = "key_write"
            /\ UNCHANGED calls
    /\ UNCHANGED <<agentVars, managedRepository, dirs, tmpFile, before>>

\* ioutil.WriteFile(GpgFilePath, ...): the write and the close.  The write
\* can fail (no space, I/O error) and leaves what it had written.
EnforceKeyWrite ==
    /\ repoPc = "key_write"
    /\ \/ /\ files' = [files EXCEPT
                          !["GpgFilePath"] = managedRepository.GpgFileContents]
          /\ repoPc' = "mkdir"
          /\ UNCHANGED calls
       \/ /\ Return("enforce", FALSE, TRUE)
          /\ UNCHANGED files
    /\ UNCHANGED <<agentVars, managedRepository, dirs, tmpFile, before>>

\* os.MkdirAll(filepath.Dir(RepoFilePath), 0755)
EnforceMkdirAll ==
    /\ repoPc = "mkdir"
    /\ \/ /\ dirs' = [dirs EXCEPT !["RepoFilePath"] = TRUE]
          /\ repoPc' = "tmp"
          /\ UNCHANGED calls
       \/ /\ ~dirs["RepoFilePath"]
          /\ Return("enforce", FALSE, TRUE)
          /\ UNCHANGED dirs
    /\ UNCHANGED <<agentVars, managedRepository, files, tmpFile, before>>

\* util.AtomicWrite(RepoFilePath, ...): the contents go to a temporary file
\* in the directory of the target.
EnforceAtomicWriteTemp ==
    /\ repoPc = "tmp"
    /\ \/ /\ tmpFile' = managedRepository.RepoFileContents
          /\ repoPc' = "rename"
          /\ UNCHANGED calls
       \/ /\ tmpFile' = 0
          /\ Return("enforce", FALSE, TRUE)
    /\ UNCHANGED <<agentVars, managedRepository, files, dirs, before>>

\* util.AtomicWrite(RepoFilePath, ...): the temporary file is renamed to the
\* target; enforceState returns true, nil.
EnforceAtomicWriteRename ==
    /\ repoPc = "rename"
    /\ \/ /\ files' = [files EXCEPT !["RepoFilePath"] = tmpFile]
          /\ tmpFile' = Missing
          /\ Return("enforce", TRUE, FALSE)
       \/ /\ Return("enforce", FALSE, TRUE)
          /\ UNCHANGED <<files, tmpFile>>
    /\ UNCHANGED <<agentVars, managedRepository, dirs, before>>

enforceState ==
    \/ EnforceStart \/ EnforceKeyOpen \/ EnforceKeyWrite \/ EnforceMkdirAll
    \/ EnforceAtomicWriteTemp \/ EnforceAtomicWriteRename

\* A validated resource of any kind, with any contents, on any files: a
\* file exists only in a directory that exists.
InitRepo ==
    /\ InitWith("repository")
    /\ arg = "noservice"
    /\ DelayOff
    /\ ConfigOff
    /\ \E k \in Kinds, c \in Contents \ {0} :
        \E g \in (IF k = "apt" THEN {Nil} \cup (Contents \ {0}) ELSE {Nil}) :
            managedRepository = Validated(k, c, g)
    /\ files \in [Paths -> FileStates]
    /\ dirs \in [Paths -> BOOLEAN]
    /\ \A p \in Paths : ~dirs[p] => files[p] = Missing
    /\ tmpFile = Missing
    /\ repoPc = "idle"
    /\ calls = <<>>
    /\ before = files

NextRepo == checkState \/ enforceState

SpecRepo == InitRepo /\ [][NextRepo]_vars

\* ------------------------------------------------ repository file bytes
\* Everything but the message rendered and the bytes it gave.
notRenderVars == <<loopVars, delayVars, repoVars, fetch, validation, apt>>

\* buf.WriteString("# Repo file managed by Google OSConfig agent\n")
ManagedByComment == "# Repo file managed by Google OSConfig agent\n"

\* The values of the ArchiveType enum, and one the enum does not name.
ArchiveTypes == {"ARCHIVE_TYPE_UNSPECIFIED", "DEB", "DEB_SRC", "7"}

debArchiveTypeMap == [t \in {"DEB", "DEB_SRC"} |->
                         IF t = "DEB" THEN "deb" ELSE "deb-src"]

\* for _, c := range repo.GetComponents() { line = fmt.Sprintf("%s %s", line, c) }
RECURSIVE AptLine(_, _)
AptLine(line, components) ==
    IF components = <<>>
    THEN line
    ELSE AptLine(line \o " " \o Head(components), Tail(components))

\* aptRepoContents, had it taken the map's zero value for a type not in it.
aptRepoContentsNoDefault(repo) ==
    LET archiveType == IF repo.ArchiveType \in DOMAIN debArchiveTypeMap
                       THEN debArchiveTypeMap[repo.ArchiveType]
                       ELSE ""
        line == archiveType \o " " \o repo.Uri \o " " \o repo.Distribution
    IN  ManagedByComment \o AptLine(line, repo.Components) \o "\n"

aptRepoContents(repo) ==
    LET ok == repo.ArchiveType \in DOMAIN debArchiveTypeMap
        archiveType == IF ok THEN debArchiveTypeMap[repo.ArchiveType]
                       ELSE "deb"
        line == archiveType \o " " \o repo.Uri \o " " \o repo.Distribution
    IN  ManagedByComment \o AptLine(line, repo.Components) \o "\n"

\* for _, k := range repo.GpgKeys[1:] { buf.WriteString(fmt.Sprintf("       %s\n", k)) }
RECURSIVE FurtherKeys(_, _)
FurtherKeys(buf, keys) ==
    IF keys = <<>>
    THEN buf
    ELSE FurtherKeys(buf \o "       " \o Head(keys) \o "\n", Tail(keys))

\* yumRepoContents, had it written the gpgkey line without looking at
\* len(repo.GpgKeys).
yumRepoContentsAlwaysKey(repo) ==
    LET b1 == ManagedByComment \o "[" \o repo.Id \o "]\n"
        b2 == IF repo.DisplayName = ""
              THEN b1 \o "name=" \o repo.Id \o "\n"
              ELSE b1 \o "name=" \o repo.DisplayName \o "\n"
        b3 == b2 \o "baseurl=" \o repo.BaseUrl \o "\n"
        b4 == b3 \o "enabled=1\ngpgcheck=1\n"
    IN  IF Len(repo.GpgKeys) > 0
        THEN FurtherKeys(b4 \o "gpgkey=" \o repo.GpgKeys[1] \o "\n",
                         Tail(repo.GpgKeys))
        ELSE b4 \o "gpgkey=\n"

yumRepoContents(repo) ==
    LET b1 == ManagedByComment \o "[" \o repo.Id \o "]\n"
        b2 == IF repo.DisplayName = ""
              THEN b1 \o "name=" \o repo.Id \o "\n"
              ELSE b1 \o "name=" \o repo.DisplayName \o "\n"
        b3 == b2 \o "baseurl=" \o repo.BaseUrl \o "\n"
        b4 == b3 \o "enabled=1\ngpgcheck=1\n"
    IN  IF Len(repo.GpgKeys) > 0
        THEN FurtherKeys(b4 \o "gpgkey=" \o repo.GpgKeys[1] \o "\n",
                         Tail(repo.GpgKeys))
        ELSE b4

\* Sequences over S of length at most n.
SeqUpTo(S, n) == UNION {[1 .. k -> S] : k \in 0 .. n}

\* The apt repository messages rendered.
AptRepositories ==
    [ArchiveType  : ArchiveTypes,
     Uri          : {"http://example/deb", "u"},
     Distribution : {"stable", "d"},
     Components   : SeqUpTo({"main", "contrib"}, MaxComponents)]

\* The yum repository messages rendered.
YumRepositories ==
    [Id          : {"X", "id"},
     DisplayName : {"", "Name"},
     BaseUrl     : {"U", "https://repo-url"},
     GpgKeys     : SeqUpTo({"A", "B"}, MaxGpgKeys)]

\* A call aptRepoContents(r.GetApt()).
AptRepoContents ==
    /\ resource.type = "apt" /\ rendered.by = "none"
    /\ rendered' = [by |-> "aptRepoContents", out |-> aptRepoContents(resource.repo)]
    /\ UNCHANGED <<notRenderVars, resource>>

\* A call yumRepoContents(r.GetYum()).
YumRepoContents ==
    /\ resource.type = "yum" /\ rendered.by = "none"
    /\ rendered' = [by |-> "yumRepoContents", out |-> yumRepoContents(resource.repo)]
    /\ UNCHANGED <<notRenderVars, resource>>

InitRender ==
    /\ InitWith("render")
    /\ arg = "noservice"
    /\ OffBut("render")
    /\ resource \in [type : {"apt"}, repo : AptRepositories]
                   \cup [type : {"yum"}, repo : YumRepositories]
    /\ rendered = [by |-> "none", out |-> ""]

NextRender == AptRepoContents \/ YumRepoContents

SpecRender == InitRender /\ [][NextRender]_vars

\* --------------------------------------------------------------- validate
googetRepoContents(repo) ==
    ManagedByComment \o "- name: " \o repo.Name \o "\n"
                     \o "  url: " \o repo.Url \o "\n"

zypperRepoContents(repo) ==
    LET b1 == ManagedByComment \o "[" \o repo.Id \o "]\n"
        b2 == IF repo.DisplayName = ""
              THEN b1 \o "name=" \o repo.Id \o "\n"
              ELSE b1 \o "name=" \o repo.DisplayName \o "\n"
        b3 == b2 \o "baseurl=" \o repo.BaseUrl \o "\n"
        b4 == b3 \o "enabled=1\n"
    IN  IF Len(repo.GpgKeys) > 0
        THEN FurtherKeys(b4 \o "gpgkey=" \o repo.GpgKeys[1] \o "\n",
                         Tail(repo.GpgKeys))
        ELSE b4

Families == {"apt", "goo", "yum", "zypper"}

\* agentconfig.AptRepoFormat() and its siblings: one template per family.
RepoFormat(family) ==
    CASE family = "apt"    -> "/etc/apt/sources.list.d/osconfig_added_%s.list"
      [] family = "goo"    -> "C:/ProgramData/GooGet/repos/osconfig_added_%s.repo"
      [] family = "yum"    -> "/etc/yum.repos.d/osconfig_added_%s.repo"
      [] family = "zypper" -> "/etc/zypp/repos.d/osconfig_added_%s.repo"

aptGPGDir == "/etc/apt/trusted.gpg.d"

\* fmt.Sprintf(format, v) with one verb: the template and what fills it.
Sprintf(format, v) == <<format, v>>

\* sum[:10]
FirstTen(sum) == <<"[:10]", sum>>

\* The zero value of ManagedRepository, with the fields of *AptRepository
\* beside it: no pointer set, no bytes, empty strings.
ZeroRepository ==
    [Apt |-> FALSE, GooGet |-> FALSE, Yum |-> FALSE, Zypper |-> FALSE,
     GpgFilePath |-> <<>>, GpgChecksum |-> NoChecksum, GpgFileContents |-> "",
     RepoFilePath |-> <<>>, RepoChecksum |-> NoChecksum,
     RepoFileContents |-> ""]

\* The resources validate is run on: the oneof r.GetRepository() and its
\* message; "unset" is the nil oneof, "other" a type the switch does not
\* name.
ValidateResources ==
    [type : {"apt"},
     repo : [ArchiveType : {"DEB"}, Uri : {"http://example/deb", "u"},
             Distribution : {"stable"}, Components : {<<"main">>},
             GpgKey : {"", "http://example/key.gpg"}]]
    \cup [type : {"goo"}, repo : [Name : {"n", "m"}, Url : {"https://repo1-url"}]]
    \cup [type : {"yum", "zypper"},
          repo : [Id : {"X", "id"}, DisplayName : {""}, BaseUrl : {"U"},
                  GpgKeys : {<<"A", "B">>}]]
    \cup {[type |-> "unset"], [type |-> "other"]}

\* What a run meets on the host and the network: the package managers
\* present (packages.AptExists, GooGetExists, YumExists, ZypperExists) and
\* how fetching and serializing the GPG key goes.
Hosts == [exists : SUBSET Families,
          key : {"fetch error", "serialize error", "keyring 1", "keyring 2"}]

\* The first lines of the four cases: the RepoFileContents of the type.
RepoContents(res) ==
    CASE res.type = "apt"    -> aptRepoContents(res.repo)
      [] res.type = "goo"    -> googetRepoContents(res.repo)
      [] res.type = "yum"    -> yumRepoContents(res.repo)
      [] res.type = "zypper" -> zypperRepoContents(res.repo)

\* ValidateFinish, had it filled the template with the whole checksum.
ValidateFinishWholeSum(res, mr) ==
    LET sum == checksum(mr.RepoFileContents) IN
    [ok |-> TRUE, err |-> FALSE,
     mr |-> [mr EXCEPT !.RepoChecksum = sum,
                       !.RepoFilePath = Sprintf(RepoFormat(res.type), sum)]]

\* The last three lines of validate: checksum, path, return.
ValidateFinish(res, mr) ==
    LET sum == checksum(mr.RepoFileContents) IN
    [ok |-> TRUE, err |-> FALSE,
     mr |-> [mr EXCEPT !.RepoChecksum = sum,
                       !.RepoFilePath = Sprintf(RepoFormat(res.type),
                                                FirstTen(sum))]]

\* A return of validate with an error.
ValidateError(mr) == [ok |-> FALSE, err |-> TRUE, mr |-> mr]

\* validateResult, had it named the repo file after the checksum of the GPG
\* key when there is one.
validateResultPathFromKey(res, host, mr) ==
    IF res.type \notin Families \/ res.type \notin host.exists
    THEN ValidateError(mr)
    ELSE LET m1 == [mr EXCEPT ![CASE res.type = "apt" -> "Apt"
                                  [] res.type = "goo" -> "GooGet"
                                  [] res.type = "yum" -> "Yum"
                                  [] res.type = "zypper" -> "Zypper"] = TRUE,
                              !.RepoFileContents = RepoContents(res)]
             m2 == IF res.type = "apt"
                   THEN [m1 EXCEPT !.GpgFilePath = <<>>,
                                   !.GpgChecksum = NoChecksum,
                                   !.GpgFileContents = ""]
                   ELSE m1
         IN  IF res.type = "apt" /\ res.repo.GpgKey # ""
             THEN IF host.key \in {"fetch error", "serialize error"}
                  THEN ValidateError(m2)
                  ELSE LET sum == checksum(host.key)
                           m3 == [m2 EXCEPT
                                    !.GpgFileContents = host.key,
                                    !.GpgChecksum = sum,
                                    !.GpgFilePath =
                                        <<aptGPGDir, "osconfig_added_", sum,
                                          ".gpg">>]
                           fin == ValidateFinish(res, m3)
                       IN  [fin EXCEPT !.mr.RepoFilePath =
                                Sprintf(RepoFormat(res.type), FirstTen(sum))]
             ELSE ValidateFinish(res, m2)

\* validateResult, had it set the pointer of the type and the contents
\* before looking for the package manager.
validateResultSetsFirst(res, host, mr) ==
    IF res.type \notin Families
    THEN ValidateError(mr)
    ELSE LET m1 == [mr EXCEPT ![CASE res.type = "apt" -> "Apt"
                                  [] res.type = "goo" -> "GooGet"
                                  [] res.type = "yum" -> "Yum"
                                  [] res.type = "zypper" -> "Zypper"] = TRUE,
                              !.RepoFileContents = RepoContents(res)]
             m2 == IF res.type = "apt"
                   THEN [m1 EXCEPT !.GpgFilePath = <<>>,
                                   !.GpgChecksum = NoChecksum,
                                   !.GpgFileContents = ""]
                   ELSE m1
         IN  IF res.type \notin host.exists
             THEN ValidateError(m2)
             ELSE IF res.type = "apt" /\ res.repo.GpgKey # ""
             THEN IF host.key \in {"fetch error", "serialize error"}
                  THEN ValidateError(m2)
                  ELSE LET sum == checksum(host.key) IN
                       ValidateFinish(res,
                           [m2 EXCEPT
                              !.GpgFileContents = host.key,
                              !.GpgChecksum = sum,
                              !.GpgFilePath =
                                  <<aptGPGDir, "osconfig_added_", sum, ".gpg">>])
             ELSE ValidateFinish(res, m2)

\* validate on resource res, on host host, with r.managedRepository being
\* mr: whether it returns ManagedResources, whether it returns an error,
\* and r.managedRepository afterwards.
validateResult(res, host, mr) ==
    IF res.type \notin Families \/ res.type \notin host.exists
    THEN ValidateError(mr)
    ELSE LET m1 == [mr EXCEPT ![CASE res.type = "apt" -> "Apt"
                                  [] res.type = "goo" -> "GooGet"
                                  [] res.type = "yum" -> "Yum"
                                  [] res.type = "zypper" -> "Zypper"] = TRUE,
                              !.RepoFileContents = RepoContents(res)]
             m2 == IF res.type = "apt"
                   THEN [m1 EXCEPT !.GpgFilePath = <<>>,
                                   !.GpgChecksum = NoChecksum,
                                   !.GpgFileContents = ""]
                   ELSE m1
         IN  IF res.type = "apt" /\ res.repo.GpgKey # ""
             THEN IF host.key \in {"fetch error", "serialize error"}
                  THEN ValidateError(m2)
                  ELSE LET sum == checksum(host.key) IN
                       ValidateFinish(res,
                           [m2 EXCEPT
                              !.GpgFileContents = host.key,
                              !.GpgChecksum = sum,
                              !.GpgFilePath =
                                  <<aptGPGDir, "osconfig_added_", sum, ".gpg">>])
             ELSE ValidateFinish(res, m2)

\* The guard of checkState and enforceState on what validate left:
\* if r.managedRepository.Apt != nil && r.managedRepository.Apt.GpgFileContents != nil
\* (a repository validate has set no key bytes on holds none).
KeyFileApplies(mr) == mr.Apt /\ mr.GpgFileContents # ""

\* Everything but the record of the validate runs.
notValidateVars == <<loopVars, delayVars, repoVars, renderVars, fetch, apt>>

\* One run of validate, on a host and with the managedRepository the
\* resource had before it.
Run(host, mr) ==
    LET res == validateResult(resource, host, mr) IN
    [made |-> TRUE, host |-> host, prior |-> mr, ok |-> res.ok,
     err |-> res.err, mr |-> res.mr]

\* The first run, on a new repositoryResource.
ValidateFirst ==
    /\ ~validation.first.made
    /\ \E host \in Hosts :
           validation' = [validation EXCEPT !.first = Run(host, ZeroRepository)]
    /\ UNCHANGED notValidateVars

\* The second run, on the same repositoryResource or on a new one with
\* the same spec, on any host.
ValidateSecond ==
    /\ validation.first.made /\ ~validation.second.made
    /\ \E host \in Hosts, mr \in {validation.first.mr, ZeroRepository} :
           validation' = [validation EXCEPT !.second = Run(host, mr)]
    /\ UNCHANGED notValidateVars

InitValidate ==
    /\ InitWith("validate")
    /\ arg = "noservice"
    /\ OffBut("validate")
    /\ resource \in ValidateResources
    /\ rendered = [by |-> "none", out |-> ""]
    /\ validation = [first |-> NoRun, second |-> NoRun]

NextValidate == ValidateFirst \/ ValidateSecond

SpecValidate == InitValidate /\ [][NextValidate]_vars

\* ------------------------------------------------------------ fetchGPGKey
\* Everything but fetchGPGKey's position and locals.
notFetchVars ==
    <<loopVars, delayVars, repoVars, renderVars, validation, apt>>

\* Body sizes in bytes, around the cap.
BodySizes == {0, 1, KeySizeCap, KeySizeCap + 1, 2 * KeySizeCap}

\* What http.Get can give: an error, or a response whose header declares a
\* length (-1 when it declares none, as with chunked transfer), whose
\* server sends so many bytes, which are an armored key, a binary key or
\* neither.
Responses ==
    {[getErr |-> TRUE, ContentLength |-> -1, sent |-> 0, key |-> "-"]}
    \cup [getErr : {FALSE}, ContentLength : {-1} \cup BodySizes,
          sent : BodySizes, key : {"armored", "binary", "garbage"}]

\* The bytes resp.Body yields: all that is sent when no length is declared,
\* else no more than the declared length.
BodyLen(resp) ==
    IF resp.ContentLength = -1 \/ resp.sent < resp.ContentLength
    THEN resp.sent
    ELSE resp.ContentLength

\* resp, err := http.Get(key)
FetchGet ==
    /\ fetch.pc = "get"
    /\ fetch' = IF fetch.resp.getErr
                THEN [fetch EXCEPT !.pc = "done", !.ret = "error"]
                ELSE [fetch EXCEPT !.pc = "length"]
    /\ UNCHANGED notFetchVars

\* if resp.ContentLength > 1024*1024 { return nil, fmt.Errorf(...) }
FetchContentLength ==
    /\ fetch.pc = "length"
    /\ fetch' = IF fetch.resp.ContentLength > KeySizeCap
                THEN [fetch EXCEPT !.pc = "done", !.ret = "error"]
                ELSE [fetch EXCEPT !.pc = "read"]
    /\ UNCHANGED notFetchVars

\* responseBody, err := io.ReadAll(resp.Body): reads to the end of the
\* body; a body shorter than the declared length is an error.
FetchReadAll ==
    /\ fetch.pc = "read"
    /\ fetch' = IF fetch.resp.ContentLength > fetch.resp.sent
                THEN [fetch EXCEPT !.pc = "done", !.ret = "error",
                                   !.read = BodyLen(fetch.resp)]
                ELSE [fetch EXCEPT !.pc = "parse",
                                   !.read = BodyLen(fetch.resp)]
    /\ UNCHANGED notFetchVars

\* isArmoredGPGKey, then openpgp.ReadArmoredKeyRing or openpgp.ReadKeyRing
\* on the bytes read.
FetchReadKeyRing ==
    /\ fetch.pc = "parse"
    /\ fetch' = [fetch EXCEPT
                    !.pc = "done",
                    !.parsed = TRUE,
                    !.ret = IF fetch.resp.key = "garbage" \/ fetch.read = 0
                            THEN "error" ELSE "entities"]
    /\ UNCHANGED notFetchVars

fetchGPGKey ==
    FetchGet \/ FetchContentLength \/ FetchReadAll \/ FetchReadKeyRing

InitFetch ==
    /\ InitWith("fetch")
    /\ arg = "noservice"
    /\ OffBut("fetch")
    /\ \E resp \in Responses :
           fetch = [pc |-> "get", resp |-> resp, read |-> 0, parsed |-> FALSE,
                    ret |-> "-"]

SpecFetch == InitFetch /\ [][fetchGPGKey]_vars

\* ---------------------------------------------------------------- apt-get
\* Everything but the call into the apt functions.
notAptVars == <<loopVars, delayVars, repoVars, renderVars, fetch, validation>>

aptGet == "/usr/bin/apt-get"

dpkg == "/usr/bin/dpkg"

dpkgRepairArgs == <<"--configure", "-a">>

aptGetInstallArgs == <<"install", "-y">>

aptGetRemoveArgs == <<"remove", "-y">>

aptGetUpdateArgs == <<"update">>

aptGetUpgradableArgs == <<"--just-print", "-qq">>

allowDowngradesArg == "--allow-downgrades"

dpkgErr == "dpkg --configure -a"

DowngradeErr ==
    "E: Packages were downgraded and -y was used without --allow-downgrades."

\* What a command can give: an error or none, and a stderr, taken as the
\* set of the two messages it contains.
Outcomes == [err : BOOLEAN, stderr : SUBSET {dpkgErr, DowngradeErr}]

\* The entry points, and those that go through
\* runAptGetWithDowngradeRetrial.
AptFunctions ==
    {"InstallAptPackages", "RemoveAptPackages", "AptUpdate", "AptUpdates"}

WithDowngradeRetrial == {"InstallAptPackages", "AptUpdates"}

WithRepair == {"InstallAptPackages", "RemoveAptPackages"}

\* The calls made: the function, its pkgs or its upgrade type, and
\* os.Environ() of the agent.
AptCalls ==
    [fn : {"InstallAptPackages", "RemoveAptPackages"},
     in : {<<"foo">>, <<"foo", "bar">>},
     environ : {<<>>, <<"DEBIAN_FRONTEND=dialog">>}]
    \cup [fn : {"AptUpdate"}, in : {<<>>},
          environ : {<<>>, <<"DEBIAN_FRONTEND=dialog">>}]
    \cup [fn : {"AptUpdates"},
          in : {"AptGetUpgrade", "AptGetDistUpgrade", "AptGetFullUpgrade", "7"},
          environ : {<<>>, <<"DEBIAN_FRONTEND=dialog">>}]

\* exec.CommandContext(ctx, name, args...): cmd.Env is nil, the child
\* inherits the environment of the agent.
CommandContext(name, args) ==
    [Path |-> name, Args |-> <<name>> \o args, Env |-> <<>>, EnvSet |-> FALSE]

\* One cmdModifier applied to cmd: the one that sets cmd.Env, or the one
\* that appends allowDowngradesArg to cmd.Args.
Modifier(m, cmd, environ) ==
    IF m = "env"
    THEN [cmd EXCEPT !.Env = Append(environ, "DEBIAN_FRONTEND=noninteractive"),
                     !.EnvSet = TRUE]
    ELSE [cmd EXCEPT !.Args = Append(@, allowDowngradesArg)]

\* for _, modifier := range cmdModifiers { modifier(cmd) }
RECURSIVE Modified(_, _, _)
Modified(cmd, cmdModifiers, environ) ==
    IF cmdModifiers = <<>>
    THEN cmd
    ELSE Modified(Modifier(Head(cmdModifiers), cmd, environ),
                  Tail(cmdModifiers), environ)

\* DowngradeModifiers, had the retry been given the new modifier alone.
DowngradeModifiersOnly(cmdModifiers) == <<"allowDowngrades">>

\* cmdModifiers = append(cmdModifiers, func(cmd *exec.Cmd) {...})
DowngradeModifiers(cmdModifiers) == Append(cmdModifiers, "allowDowngrades")

\* NeedsDowngradeRetrial, had it not looked at err.
NeedsDowngradeRetrialAnyErr(out) == DowngradeErr \in out.stderr

\* if err != nil { if strings.Contains(string(stderr), "E: Packages were ...") {
NeedsDowngradeRetrial(out) == out.err /\ DowngradeErr \in out.stderr

\* dpkgRepairNeeded, had it not looked at the output.
dpkgRepairNeededAlways(out) == TRUE

\* dpkgRepair: if !bytes.Contains(out, dpkgErr) { return false }
dpkgRepairNeeded(out) == dpkgErr \in out

\* AptError, had it formatted no stdout.
AptErrorNoStdout(args, out) ==
    [nil |-> FALSE, cmd |-> aptGet, args |-> args, stdout |-> 0,
     stderr |-> out.stderr]

\* fmt.Errorf("error running %s with args %q: %v, stdout: %q, stderr: %q",
\*            aptGet, args, err, stdout, stderr)
AptError(args, out) ==
    [nil |-> FALSE, cmd |-> aptGet, args |-> args, stdout |-> out.stdout,
     stderr |-> out.stderr]

\* A nil error, with the fields of AptError empty.
NilError ==
    [nil |-> TRUE, cmd |-> "", args |-> <<>>, stdout |-> 0, stderr |-> {}]

\* The modifiers every entry point builds.
EnvModifiers == <<"env">>

\* The function returns ret.
AptReturn(ret) ==
    apt' = [apt EXCEPT !.pc = "done", !.ret = [returned |-> TRUE, err |-> ret]]

\* Entry into one of the functions: args is built; AptUpdates returns an
\* error for an upgrade type it does not know.
AptEnter ==
    /\ apt.pc = "enter"
    /\ CASE apt.fn = "InstallAptPackages" ->
              apt' = [apt EXCEPT !.pc = "run",
                                 !.args = aptGetInstallArgs \o apt.in]
         [] apt.fn = "RemoveAptPackages" ->
              apt' = [apt EXCEPT !.pc = "run",
                                 !.args = aptGetRemoveArgs \o apt.in]
         [] apt.fn = "AptUpdate" ->
              apt' = [apt EXCEPT !.pc = "run", !.args = aptGetUpdateArgs]
         [] apt.fn = "AptUpdates" ->
              IF apt.in = "AptGetUpgrade"
              THEN apt' = [apt EXCEPT !.pc = "update",
                              !.args = Append(aptGetUpgradableArgs, "upgrade")]
              ELSE IF apt.in = "AptGetDistUpgrade"
              THEN apt' = [apt EXCEPT !.pc = "update",
                              !.args = Append(aptGetUpgradableArgs, "dist-upgrade")]
              ELSE IF apt.in = "AptGetFullUpgrade"
              THEN apt' = [apt EXCEPT !.pc = "update",
                              !.args = Append(aptGetUpgradableArgs, "full-upgrade")]
              ELSE AptReturn([NilError EXCEPT !.nil = FALSE])
    /\ UNCHANGED notAptVars

\* runAptGet(ctx, args, cmdModifiers) that ends with outcome o: the command
\* is built, modified and run (runner.Run); via names the caller.
runAptGet(a, args, cmdModifiers, o, via) ==
    [a EXCEPT
        !.log = Append(@, [cmd |-> Modified(CommandContext(aptGet, args),
                                            cmdModifiers, a.environ),
                           err |-> o.err, stderr |-> o.stderr, via |-> via]),
        !.out = [stdout |-> Len(a.log) + 1, stderr |-> o.stderr,
                 err |-> o.err]]

\* AfterAttempt, had the repair been tried after every failed attempt, the
\* one that follows a repair too.
AfterAttemptAnyRound(fn, pc, out) ==
    IF /\ fn \in WithRepair
       /\ out.err
       /\ dpkgRepairNeeded(out.stderr)
    THEN "repair"
    ELSE "return"

\* Where a function goes once an attempt (a runAptGet, or a whole
\* runAptGetWithDowngradeRetrial) has given out: to the repair, or to its
\* return.
AfterAttempt(fn, pc, out) ==
    IF /\ fn \in WithRepair
       /\ pc \in {"run", "run_downgrade"}
       /\ out.err
       /\ dpkgRepairNeeded(out.stderr)
    THEN "repair"
    ELSE "return"

\* AptUpdates: if _, err := AptUpdate(ctx); err != nil { return nil, err }
AptUpdatesUpdate ==
    /\ apt.pc = "update"
    /\ \E o \in Outcomes :
          LET a == runAptGet(apt, aptGetUpdateArgs, EnvModifiers, o, "AptUpdate")
          IN  apt' = IF o.err
                     THEN [a EXCEPT !.pc = "done",
                                    !.ret = [returned |-> TRUE,
                                             err |-> [NilError EXCEPT !.nil = FALSE]]]
                     ELSE [a EXCEPT !.pc = "run"]
    /\ UNCHANGED notAptVars

\* The runAptGet of the entry point, or the first one of its
\* runAptGetWithDowngradeRetrial; before the repair (run) or after (retry).
AptRun ==
    /\ apt.pc \in {"run", "retry"}
    /\ \E o \in Outcomes :
          LET retrial == apt.fn \in WithDowngradeRetrial
              a == runAptGet(apt, apt.args, EnvModifiers, o,
                             IF retrial THEN "runAptGetWithDowngradeRetrial"
                             ELSE apt.fn)
          IN  apt' = [a EXCEPT !.pc =
                        IF retrial /\ NeedsDowngradeRetrial(a.out)
                        THEN IF apt.pc = "run" THEN "run_downgrade"
                             ELSE "retry_downgrade"
                        ELSE AfterAttempt(apt.fn, apt.pc, a.out)]
    /\ UNCHANGED notAptVars

\* runAptGetWithDowngradeRetrial: the second runAptGet, with the modifier
\* that adds allowDowngradesArg.
AptRunAllowDowngrades ==
    /\ apt.pc \in {"run_downgrade", "retry_downgrade"}
    /\ \E o \in Outcomes :
          LET a == runAptGet(apt, apt.args, DowngradeModifiers(EnvModifiers),
                             o, "runAptGetWithDowngradeRetrial")
          IN  apt' = [a EXCEPT !.pc = AfterAttempt(apt.fn, apt.pc, a.out)]
    /\ UNCHANGED notAptVars

\* dpkgRepair: run(ctx, dpkg, dpkgRepairArgs), its result ignored.
DpkgRepair ==
    /\ apt.pc = "repair"
    /\ \E o \in Outcomes :
          apt' = [apt EXCEPT
                    !.pc = "retry",
                    !.log = Append(@, [cmd |-> CommandContext(dpkg, dpkgRepairArgs),
                                       err |-> o.err, stderr |-> o.stderr,
                                       via |-> "dpkgRepair"])]
    /\ UNCHANGED notAptVars

\* The end of the function: the error is wrapped by InstallAptPackages and
\* RemoveAptPackages, and returned as it is by the others.
AptEnd ==
    /\ apt.pc = "return"
    /\ AptReturn(IF ~apt.out.err THEN NilError
                 ELSE IF apt.fn \in WithRepair THEN AptError(apt.args, apt.out)
                 ELSE [NilError EXCEPT !.nil = FALSE])
    /\ UNCHANGED notAptVars

InitApt ==
    /\ InitWith("apt")
    /\ arg = "noservice"
    /\ OffBut("apt")
    /\ \E c \in AptCalls :
          apt = [fn |-> c.fn, in |-> c.in, pc |-> "enter", args |-> <<>>,
                 environ |-> c.environ, log |-> <<>>,
                 out |-> [stdout |-> 0, stderr |-> {}, err |-> FALSE],
                 ret |-> [returned |-> FALSE, err |-> NilError]]

NextApt ==
    \/ AptEnter \/ AptUpdatesUpdate \/ AptRun \/ AptRunAllowDowngrades
    \/ DpkgRepair \/ AptEnd

SpecApt == InitApt /\ [][NextApt]_vars

\* ---------------------------------------------------------------------
\* Properties
\* ---------------------------------------------------------------------
Range(q) == {q[i] : i \in 1..Len(q)}

IsPrefix(p, q) == Len(p) <= Len(q) /\ \A i \in 1..Len(p) : p[i] = q[i]

\* Positions of main inside the for loop of runServiceLoop.
SvcLoopPcs == {"svc_top", "svc_inv", "svc_first", "svc_tick"}

\* Positions of main inside runServiceLoop.
SvcPcs == {"svc_start", "svc_gotask", "svc_recv", "svc_gate"} \cup SvcLoopPcs

\* C1: on the restart-marker path runInternalPeriodics runs no deferred
\* function before tasker.Close() has returned, runs the functions of
\* deferredFuncs once each in registration order, and exits with code 2
\* only after it has run them all.
C1_RestartShutdownOrder ==
    /\ ran["periodics"] # <<>> => closeReturned
    /\ IsPrefix(ran["periodics"], deferredFuncs)
    /\ perPc = "defers" => Len(ran["periodics"]) = perIdx - 1
    /\ exitCode = 2 => closeReturned /\ ran["periodics"] = deferredFuncs

C1_Witness ==
    /\ exitCode = 2
    /\ Len(ran["periodics"]) = 4

\* C2: at most one enqueued task body executes at any instant, and the
\* bodies start in the order in which the tasks were enqueued.
C2_SingleWorkerFIFO ==
    /\ Cardinality(running) <= 1
    /\ \A i \in 1..Len(started) : started[i] = i

C2_Witness ==
    /\ Len(started) = 2
    /\ 1 \in finished
    /\ Cardinality(running) = 1

\* C3: once tasker.Close() has returned no task body is running and none
\* starts any more; in one-shot inventory mode the enqueued report body has
\* finished before run returns and before any deferred function runs.
C3_DrainOnClose ==
    /\ closeReturned => running = {} /\ queue = <<>>
    /\ ~lateStart
    /\ (arg = "inventory" /\ nextId > 1
          /\ (mainPc \in {"defers", "exited"} \/ ran["main"] # <<>>))
       => 1 \in finished

C3_Witness ==
    /\ arg = "inventory"
    /\ exitCode = 0
    /\ 1 \in finished
    /\ closeReturned

\* C4: registerAgent returns only after an attempt in which NewClient and
\* RegisterAgent both succeeded; after a failed attempt it sleeps, and only
\* after the sleep it makes the next attempt; it never returns on a failure.
C4_RegisterAgentRetries ==
    \A g \in Callers :
        /\ regPc[g] = "idle" => regLast[g] \in {"none", "ok", "ok_retry"}
        /\ regPc[g] = "sleep" => regLast[g] = "failed"
        /\ regPc[g] \in {"newclient", "register"} => regLast[g] \in {"none", "slept"}
        /\ (g = "task" /\ pass.registered) => regLast[g] \in {"ok", "ok_retry"}

C4_Witness ==
    /\ regPc["task"] = "idle"
    /\ regLast["task"] = "ok_retry"
    /\ pass.registered

\* C5: once ctx is cancelled a registerAgent call in progress stops retrying
\* and returns (or the process exits).
C5_CancelStopsRegisterAgent ==
    (ctxDone /\ regPc["task"] # "idle") ~> (regPc["task"] = "idle" \/ ~Running)

\* C6: the lock, the registration goroutine, the service loop, its
\* goroutines and every Enqueue come only after the first WatchConfig of run
\* has succeeded; when it fails run goes nowhere but to the fatal exit.
C6_WatchConfigFirst ==
    /\ ( \/ lockHeld
         \/ deferredFuncs # <<>>
         \/ refreshPc # "off"
         \/ perPc # "off"
         \/ taskPc # "off"
         \/ mainPc \in SvcPcs
         \/ nextId > 1 ) => cfgOK
    /\ ~cfgOK => mainPc \in {"main", "watchconfig", "fatal", "exited"}
    /\ (~cfgOK /\ ~Running /\ arg # "wuaupdates") => exitCode = 1

C6_Witness ==
    /\ cfgOK
    /\ arg = "noservice"
    /\ nextId > 1
    /\ refreshPc # "off"
    /\ mainPc \in SvcLoopPcs

\* C7: runServiceLoop is inside its loop (policies.Run, inventory) only
\* after runTaskLoop has made a whole first pass; when TaskNotificationEnabled
\* held at that pass, registerAgent had returned and the attempt to create
\* the client had finished.
C7_GateBeforePeriodicWork ==
    (mainPc \in SvcLoopPcs \/ (arg = "noservice" /\ nextId > 1))
       => /\ firstPass.done
          /\ firstPass.tn => /\ firstPass.registered
                             /\ firstPass.act \in {"opened", "create_failed"}

C7_Witness ==
    /\ mainPc = "svc_tick"
    /\ firstPass.tn
    /\ firstPass.registered
    /\ firstPass.act = "opened"
    /\ \E i \in 1..Len(queue) : queue[i].label = "Report OSInventory"

C9_CancelReturnsAll ==
    ctxDone ~> \/ ~Running
               \/ /\ mainPc \notin SvcPcs
                  /\ taskPc \in {"off", "returned"}
                  /\ perPc \in {"off", "returned"}

\* C10: when the process exits after obtainLock has returned, every function
\* of deferredFuncs, the lock release among them, has been run.
C10_CleanupOnEveryExit ==
    (~Running /\ "unlock" \in Range(deferredFuncs))
       => /\ Range(deferredFuncs) \subseteq Range(ran["main"]) \cup Range(ran["periodics"])
          /\ ran["main"] = deferredFuncs \/ ran["periodics"] = deferredFuncs
          /\ ~lockHeld

\* C10, the fatal path.
C10_Witness ==
    /\ exitCode = 1
    /\ "unlock" \in Range(deferredFuncs)
    /\ ran["main"] = deferredFuncs

\* Number of times function f has been run, by either goroutine.
TimesRun(f) ==
    Cardinality({i \in 1..Len(ran["main"]) : ran["main"][i] = f})
      + Cardinality({i \in 1..Len(ran["periodics"]) : ran["periodics"][i] = f})

\* C11: the functions of deferredFuncs are run by one goroutine only (main
\* or runInternalPeriodics, never both) and each at most once in a run of
\* the process.
C11_CleanupBySingleGoroutine ==
    /\ ~(ran["main"] # <<>> /\ ran["periodics"] # <<>>)
    /\ \A f \in Range(deferredFuncs) : TimesRun(f) <= 1

\* Positions of runInternalPeriodics from the os.Stat of the marker to the
\* exit of the restart-marker branch.
PerShutdownPcs == {"check", "close", "closewait", "defers", "exited"}

\* C12: runInternalPeriodics goes from its start and from every ticker tick
\* to the os.Stat of the marker, so it never takes a second tick with the
\* marker present: after the one tick it took with the marker present it is
\* at the check or in the shutdown, and it waits with the marker present
\* only if the marker appeared after its last check.
C12_MarkerSeenByNextTick ==
    /\ perSince <= 1
    /\ perSince = 1 => perPc \in PerShutdownPcs /\ restartFile
    /\ (perPc = "wait" /\ restartFile) => perSince = 0
    /\ (perPc \in {"close", "closewait", "defers"}) => restartFile

C12_Witness ==
    /\ perSince = 1
    /\ perPc = "closewait"
    /\ ~ctxDone

\* The task that runServiceLoop hands to tasker.Enqueue for an inventory report.
IsReport(t) == t.label = "Report OSInventory"

\* One call of tasker.Enqueue for a report in this step: the task is appended,
\* or the tasker, being closed, refuses it.
ReportEnqueued ==
    IF closed
    THEN queue' = queue
    ELSE queue' = Append(queue, [id |-> nextId, label |-> "Report OSInventory"])

\* In service mode a report task exists only once the wait is over, and the
\* loop is at the wait only while ranFirstInventory is false.
C13_ReportOnlyAfterWait ==
    /\ (arg = "noservice" /\ \E t \in Range(queue) \cup running : IsReport(t))
          => ranFirstInventory
    /\ mainPc = "svc_first" => ~ranFirstInventory /\ invRead = "on"

\* One step of runServiceLoop at the OSInventoryEnabled branch.
C13_Step ==
    /\ ranFirstInventory => ranFirstInventory'
    /\ (~ranFirstInventory /\ ranFirstInventory')
          => mainPc = "svc_first" /\ ReportEnqueued
    /\ (mainPc = "svc_inv" /\ mainPc' # "svc_inv") =>
          /\ invRead' = "off" => queue' = queue /\ mainPc' = "svc_tick"
          /\ (invRead' = "on" /\ ~ranFirstInventory)
                => queue' = queue /\ mainPc' = "svc_first"
          /\ (invRead' = "on" /\ ranFirstInventory)
                => ReportEnqueued /\ mainPc' = "svc_tick"

\* C13: runServiceLoop enqueues no report before the first-inventory timer
\* or the poll ticker has fired; it waits for that once, the first time
\* OSInventoryEnabled is true; in every later iteration where
\* OSInventoryEnabled is true it calls tasker.Enqueue with a report and does
\* not wait.
C13_FirstInventoryOnce ==
    []C13_ReportOnlyAfterWait /\ [][C13_Step]_vars

C13_Witness ==
    /\ ranFirstInventory
    /\ invRead = "on"
    /\ mainPc = "svc_tick"
    /\ Len(queue) = 2
    /\ \A i \in 1..2 : IsReport(queue[i])

\* C14: the firstInventory timer is set to a whole number of seconds d
\* with 180 <= d <= 300, whatever rand.Intn returned.
C14_FirstInventoryDelayRange ==
    firstInventory # -1 =>
        /\ firstInventory \in Nat
        /\ 180 <= firstInventory
        /\ firstInventory <= 300

\* The longest delay: rand.Intn returned its largest value.
C14_Witness ==
    /\ randN = IntnArg - 1
    /\ firstInventory = 299

\* The refresh goroutine is inside registerAgent.
RefreshRegistering == refreshPc = "registering" \/ regPc["refresh"] # "idle"

\* One 24-hour tick taken by the refresh goroutine in this step.
RefreshTicked == refreshHist'.ticks = refreshHist.ticks + 1

C15_Step ==
    /\ RefreshTicked =>
          ( (tnEnabled \/ refreshHist'.gp)
              <=> /\ refreshPc' = "registering"
                  /\ regPc["refresh"] = "idle"
                  /\ regPc'["refresh"] = "newclient" )
    /\ (regPc["refresh"] = "idle" /\ regPc'["refresh"] # "idle") => RefreshTicked

\* C15: on a 24-hour tick the refresh goroutine of run calls registerAgent
\* if and only if TaskNotificationEnabled or GuestPoliciesEnabled is true at
\* that tick, and it is never inside registerAgent before its first tick.
C15_RefreshOnTickIffEnabled ==
    [](RefreshRegistering => refreshHist.ticks >= 1) /\ [][C15_Step]_vars

\* The second tick, guest policies enabled and task notifications not: the
\* goroutine has called registerAgent.
C15_Witness ==
    /\ refreshHist.ticks = 2
    /\ refreshHist.gp
    /\ ~tnEnabled
    /\ regPc["refresh"] = "register"

\* The spellings of each mode.
ServiceArgs   == {"", "run", "noservice"}
InventoryArgs == {"inventory", "osinventory"}
PolicyArgs    == {"gp", "policies", "guestpolicies", "ospackage"}
WaitArgs      == {"w", "waitfortasknotification", "ospatch"}
KnownArgs     == ServiceArgs \cup InventoryArgs \cup PolicyArgs \cup WaitArgs
                   \cup {"wuaupdates"}

\* Positions of main inside each one-shot mode of run.
InventoryPcs == {"inv_newclient", "inv_enqueue"}
PolicyPcs    == {"gp_run"}
WaitPcs      == {"w_newclient", "w_wait"}

\* Where run is after its switch, for each spelling.
ModeEntry(a) ==
    CASE a \in ServiceArgs   -> "svc_start"
      [] a \in InventoryArgs -> "inv_newclient"
      [] a \in PolicyArgs    -> "gp_run"
      [] a \in WaitArgs      -> "w_newclient"
      [] OTHER               -> "fatal"

C16_ModeOfArg ==
    /\ mainPc \in SvcPcs => arg \in ServiceArgs
    /\ mainPc \in InventoryPcs => arg \in InventoryArgs
    /\ mainPc \in PolicyPcs => arg \in PolicyArgs
    /\ mainPc \in WaitPcs => arg \in WaitArgs
    /\ mainPc \in {"close", "closewait"} => arg \in InventoryArgs \cup PolicyArgs
    /\ arg \in InventoryArgs =>
          /\ nextId <= 2
          /\ \A t \in Range(queue) \cup running : t.label = "Report OSInventory"
          /\ (exitCode = 0 => nextId = 2 /\ 1 \in finished)
    /\ arg \in PolicyArgs =>
          \A t \in Range(queue) \cup running : t.label = "Run GuestPolicies"
    /\ (arg \in WaitArgs /\ mainPc = "defers") => wStream /\ ctxDone
    /\ arg = "wuaupdates" =>
          /\ mainPc \in {"main", "exited"}
          /\ exitCode \in {-1, 0, 1}
          /\ ~cfgOK /\ deferredFuncs = <<>>
    /\ arg \notin KnownArgs =>
          /\ mainPc \notin SvcPcs \cup InventoryPcs \cup PolicyPcs \cup WaitPcs
          /\ mainPc \notin {"close", "closewait", "defers"}
          /\ nextId = 1 /\ ~wStream /\ perPc = "off" /\ taskPc = "off"
          /\ ~Running => exitCode = 1

C16_Step ==
    /\ (mainPc = "switch" /\ mainPc' # "switch") => mainPc' = ModeEntry(arg)
    /\ (mainPc = "main" /\ mainPc' # "main" /\ arg # "wuaupdates")
          => mainPc' \in {"runservice", "watchconfig"}
    /\ (mainPc = "runservice" /\ mainPc' # "runservice") => mainPc' = "watchconfig"

\* C16: argument 0 selects the mode.  "", run, noservice: the service loop;
\* inventory, osinventory: one inventory report; gp, policies, guestpolicies,
\* ospackage: guest policies once; w, waitfortasknotification, ospatch: the
\* notification stream, until ctx is done; wuaupdates: exit 0 or 1 without
\* entering run; anything else: a fatal error and none of the modes.
C16_ArgSelectsMode ==
    []C16_ModeOfArg /\ [][C16_Step]_vars

C16_Witness ==
    /\ arg = "ospackage"
    /\ exitCode = 0
    /\ closeReturned
    /\ 1 \in finished

\* ---------------------------------------------------------------------
\* repositoryResource: checkState and enforceState

\* The call that returned last.
LastCall == calls[Len(calls)]

Returned(op) == repoPc = "idle" /\ Len(calls) > 0 /\ LastCall.op = op

\* The file at path p of f exists, can be opened and has checksum chk.
FileMatches(f, p, chk) == f[p] \in Contents /\ checksum(f[p]) = chk

KeyMatches(f) == FileMatches(f, "GpgFilePath", managedRepository.GpgChecksum)

RepoMatches(f) == FileMatches(f, "RepoFilePath", managedRepository.RepoChecksum)

\* The files checkState has to look at.
Consulted == IF ManagesKey(managedRepository) THEN Paths ELSE {"RepoFilePath"}

\* C17 (as stated): checkState returns (true, nil) exactly when every file
\* it has to look at matches, (false, nil) whenever one of them is missing
\* or differs, and an error whenever one of them cannot be opened.
C17_AsStated ==
    Returned("check") =>
        /\ (LastCall.inDesiredState /\ ~LastCall.err)
              <=> (RepoMatches(before)
                   /\ (ManagesKey(managedRepository) => KeyMatches(before)))
        /\ (\E p \in Consulted : before[p] = Denied) => LastCall.err
        /\ (\E p \in Consulted :
               \/ before[p] = Missing
               \/ before[p] \in Contents
                  /\ ~FileMatches(before, p,
                                  IF p = "GpgFilePath"
                                  THEN managedRepository.GpgChecksum
                                  ELSE managedRepository.RepoChecksum))
              => (~LastCall.inDesiredState /\ ~LastCall.err)

\* C17 (amended): checkState returns (true, nil) exactly when every file it
\* has to look at matches.  The key file is looked at first and decides
\* alone when it does not match: the call returns an error exactly when the
\* key file cannot be opened, or the key file matches (or there is none) and
\* the repo file cannot be opened; in every other case with a missing or
\* differing file it returns (false, nil).
C17_CheckStateResult ==
    Returned("check") =>
        LET key == ManagesKey(managedRepository) IN
        /\ (LastCall.inDesiredState /\ ~LastCall.err)
              <=> (RepoMatches(before) /\ (key => KeyMatches(before)))
        /\ LastCall.err
              <=> \/ key /\ before["GpgFilePath"] = Denied
                  \/ (key => KeyMatches(before))
                     /\ before["RepoFilePath"] = Denied
        /\ LastCall.err => ~LastCall.inDesiredState

\* checkState has returned (false, nil) for a key file that differs although
\* the repo file cannot be opened.
C17_Witness ==
    /\ Returned("check")
    /\ ManagesKey(managedRepository)
    /\ before["GpgFilePath"] \in Contents /\ ~KeyMatches(before)
    /\ before["RepoFilePath"] = Denied
    /\ ~LastCall.inDesiredState /\ ~LastCall.err

\* C18: checkState is side-effect-free: when it returns, every file (its
\* existence and its contents), every directory, and the resource's
\* managedRepository are what they were when it was called.
C18_CheckStateNoSideEffect ==
    [][checkState =>
          /\ files' = files
          /\ dirs' = dirs
          /\ tmpFile' = tmpFile
          /\ managedRepository' = managedRepository]_vars

\* checkState has returned for a resource with a key whose files are missing.
C18_Witness ==
    /\ Returned("check")
    /\ ManagesKey(managedRepository)
    /\ \A p \in Paths : before[p] = Missing /\ files[p] = Missing

\* C19: after enforceState has returned (true, nil), a checkState that
\* follows it at once returns (true, nil), and an enforceState that follows
\* it at once returns with the key file and the repo file as it found them.
C19_EnforceIdempotent ==
    (/\ repoPc = "idle"
     /\ Len(calls) >= 2
     /\ calls[Len(calls) - 1] = [op |-> "enforce", inDesiredState |-> TRUE,
                                 err |-> FALSE])
        => /\ LastCall.op = "check"
                => LastCall.inDesiredState /\ ~LastCall.err
           /\ LastCall.op = "enforce" => files = before

\* C20: while enforceState runs and after it, every path holds either what
\* it held when enforceState was called or the complete new contents.
C20_EnforceWritesAtomically ==
    ((Len(calls) > 0 /\ LastCall.op = "enforce") \/ repoPc # "idle")
        => /\ files["RepoFilePath"] \in
                 {before["RepoFilePath"], managedRepository.RepoFileContents}
           /\ files["GpgFilePath"] \in
                 {before["GpgFilePath"]} \cup
                 (IF ManagesKey(managedRepository)
                  THEN {managedRepository.GpgFileContents} ELSE {})

\* ---------------------------------------------------------------------
\* Repository file contents

\* The strings of ss, each followed by sep.
RECURSIVE Terminated(_, _)
Terminated(ss, sep) ==
    IF ss = <<>> THEN "" ELSE Head(ss) \o sep \o Terminated(Tail(ss), sep)

\* The strings of ss with sep between them.
Joined(ss, sep) ==
    IF ss = <<>> THEN ""
    ELSE Head(ss) \o Terminated([i \in 1 .. Len(ss) - 1 |-> sep \o ss[i + 1]], "")

\* C24: aptRepoContents gives the managed-by comment line, then one line
\* of the archive type, the uri, the distribution and the components in
\* their order, with one space between neighbours and a newline at the
\* end; the archive type is deb-src for DEB_SRC and deb for anything else.
C24_AptRepoContents ==
    rendered.by = "aptRepoContents" =>
        LET repo == resource.repo
            archive == IF repo.ArchiveType = "DEB_SRC" THEN "deb-src" ELSE "deb"
        IN  rendered.out =
                Terminated(<<"# Repo file managed by Google OSConfig agent",
                             Joined(<<archive, repo.Uri, repo.Distribution>>
                                        \o repo.Components, " ")>>, "\n")

\* The repository of the claim's example has been rendered, to the bytes
\* the example gives.
C24_Witness ==
    /\ rendered.by = "aptRepoContents"
    /\ resource.repo.ArchiveType = "ARCHIVE_TYPE_UNSPECIFIED"
    /\ resource.repo.Uri = "http://example/deb"
    /\ resource.repo.Distribution = "stable"
    /\ resource.repo.Components = <<"main">>
    /\ rendered.out = "# Repo file managed by Google OSConfig agent\ndeb http://example/deb stable main\n"

\* C25: yumRepoContents gives the managed-by comment, [Id], name= (the
\* display name, or the Id when that is empty), baseurl=, enabled=1,
\* gpgcheck=1, and with at least one GPG key gpgkey=<first key> and one
\* line of seven spaces and the key for each further key, in their order;
\* with no GPG key there is no gpgkey line.
C25_YumRepoContents ==
    rendered.by = "yumRepoContents" =>
        LET repo == resource.repo
            keys == repo.GpgKeys
            name == IF repo.DisplayName = "" THEN repo.Id ELSE repo.DisplayName
            keyLines == [i \in 1 .. Len(keys) |->
                            IF i = 1 THEN "gpgkey=" \o keys[1]
                            ELSE "       " \o keys[i]]
        IN  rendered.out =
                Terminated(<<"# Repo file managed by Google OSConfig agent",
                             "[" \o repo.Id \o "]",
                             "name=" \o name,
                             "baseurl=" \o repo.BaseUrl,
                             "enabled=1",
                             "gpgcheck=1">> \o keyLines, "\n")

\* The yum repository with Id X, base URL U, keys A and B and no display
\* name has been rendered, to the bytes of the example.
C25_Witness ==
    /\ rendered.by = "yumRepoContents"
    /\ resource.repo.DisplayName = ""
    /\ resource.repo.GpgKeys = <<"A", "B">>
    /\ resource.repo.Id = "X" /\ resource.repo.BaseUrl = "U"
    /\ rendered.out = "# Repo file managed by Google OSConfig agent\n[X]\nname=X\nbaseurl=U\nenabled=1\ngpgcheck=1\ngpgkey=A\n       B\n"
\* ---------------------------------------------------------------------
\* fetchGPGKey

\* C22: whatever length the response declares, a body of more than 1 MiB
\* is never read in full, never handed to the keyring parser, and makes
\* fetchGPGKey return an error.
C22_KeySizeCapEnforced ==
    BodyLen(fetch.resp) > 1024 * 1024 =>
        /\ fetch.read < BodyLen(fetch.resp)
        /\ ~fetch.parsed
        /\ fetch.pc = "done" => fetch.ret = "error"

\* ---------------------------------------------------------------------
\* validate

\* The runs of validate made so far.
RunsMade == {run \in {validation.first, validation.second} : run.made}

\* C21: two runs of validate on the same spec that return ManagedResources
\* give the same RepoFilePath, RepoChecksum and RepoFileContents, whatever
\* the host of each run has and whatever an earlier run left in the
\* resource.
C21_StablePaths ==
    \A a, b \in RunsMade :
        (a.ok /\ b.ok) =>
            /\ a.mr.RepoFilePath = b.mr.RepoFilePath
            /\ a.mr.RepoChecksum = b.mr.RepoChecksum
            /\ a.mr.RepoFileContents = b.mr.RepoFileContents

\* Two runs on an apt repository with a GPG key have returned
\* ManagedResources, the second on the resource the first left, with
\* another keyring fetched and other package managers present.
C21_Witness ==
    /\ validation.second.made
    /\ validation.first.ok /\ validation.second.ok
    /\ resource.type = "apt" /\ resource.repo.GpgKey # ""
    /\ validation.second.prior = validation.first.mr
    /\ validation.first.host.key # validation.second.host.key
    /\ validation.first.host.exists # validation.second.host.exists
    /\ validation.second.mr.RepoFileContents =
          "# Repo file managed by Google OSConfig agent\ndeb http://example/deb stable main\n"

\* The run met no package manager for the type of its repository.
ManagerMissing(run) ==
    resource.type \in Families /\ resource.type \notin run.host.exists

\* The repository oneof of the resource is unset or of no known type.
UnknownType == resource.type \notin Families

\* The run could not fetch or serialize the GPG key of its apt repository.
KeyFailed(run) ==
    /\ resource.type = "apt" /\ resource.repo.GpgKey # ""
    /\ run.host.key \in {"fetch error", "serialize error"}

\* C23: validate returns an error and no ManagedResources when the package
\* manager of the repository type is missing, when the repository is unset
\* or of unknown type, and when the apt GPG key cannot be fetched or
\* serialized; in the first two cases managedRepository is as it was.
C23_ValidateErrors ==
    \A run \in RunsMade :
        /\ (ManagerMissing(run) \/ UnknownType \/ KeyFailed(run))
              => (run.err /\ ~run.ok)
        /\ (ManagerMissing(run) \/ UnknownType) => run.mr = run.prior

\* A second run on a resource that an earlier run had validated met no
\* package manager and has returned an error.
C23_Witness ==
    /\ validation.second.made
    /\ validation.first.ok
    /\ validation.second.prior = validation.first.mr
    /\ ManagerMissing(validation.second)
    /\ validation.second.err /\ ~validation.second.ok
    /\ validation.second.mr = validation.first.mr

\* ---------------------------------------------------------------------
\* apt-get

\* The largest number of a non-empty set of numbers.
MaxOf(S) == CHOOSE m \in S : \A x \in S : x <= m

\* The commands of the log that ran apt-get, and those that ran dpkg.
AptGetRuns == {k \in 1 .. Len(apt.log) : apt.log[k].cmd.Path = aptGet}

Repairs == {k \in 1 .. Len(apt.log) : apt.log[k].cmd.Path = dpkg}

\* The command apt-get with the arguments of the call, and the same with
\* --allow-downgrades after them.
OriginalArgs == <<aptGet>> \o apt.args

DowngradeArgs == Append(OriginalArgs, "--allow-downgrades")

\* Command k of the log failed, with stderr containing msg.
FailedWith(k, msg) == apt.log[k].err /\ msg \in apt.log[k].stderr

\* The function has returned.
AptDone == apt.pc = "done"

\* What C26 says of the repair itself: at most one per call, and only
\* right after an apt-get command that failed with the dpkg message.
RepairOnceOnFailure ==
    /\ Cardinality(Repairs) <= 1
    /\ \A k \in Repairs :
          /\ apt.log[k].cmd.Args = <<dpkg, "--configure", "-a">>
          /\ k - 1 \in AptGetRuns
          /\ FailedWith(k - 1, "dpkg --configure -a")

\* C26 (as stated): InstallAptPackages and RemoveAptPackages run the repair
\* at most once, only after an apt-get failure whose stderr has the dpkg
\* message, and after it run the original apt-get command exactly once,
\* nothing else.
C26_AsStated ==
    apt.fn \in {"InstallAptPackages", "RemoveAptPackages"} =>
        /\ RepairOnceOnFailure
        /\ \A k \in Repairs :
              /\ Len(apt.log) <= k + 1
              /\ AptDone => Len(apt.log) = k + 1
              /\ Len(apt.log) = k + 1 => apt.log[k + 1].cmd.Args = OriginalArgs

\* C26 (amended): the repair runs at most once, only after an apt-get
\* failure whose stderr has the dpkg message.  After it RemoveAptPackages
\* runs the original command exactly once.  InstallAptPackages runs it
\* once, and once more with --allow-downgrades exactly when that run
\* failed with the downgrade message; nothing follows.
C26_RepairOnceRetryOnce ==
    apt.fn \in {"InstallAptPackages", "RemoveAptPackages"} =>
        /\ RepairOnceOnFailure
        /\ \A k \in Repairs :
              /\ Len(apt.log) <= k + 2
              /\ AptDone => Len(apt.log) >= k + 1
              /\ Len(apt.log) >= k + 1 => apt.log[k + 1].cmd.Args = OriginalArgs
              /\ Len(apt.log) = k + 2 =>
                    /\ apt.fn = "InstallAptPackages"
                    /\ FailedWith(k + 1, DowngradeErr)
                    /\ apt.log[k + 2].cmd.Args = DowngradeArgs
              /\ (AptDone /\ Len(apt.log) = k + 1) =>
                    ~(apt.fn = "InstallAptPackages"
                      /\ FailedWith(k + 1, DowngradeErr))

\* InstallAptPackages has returned after a repair that was followed by
\* two apt-get runs, the second with --allow-downgrades, and that failed
\* with the dpkg message again.
C26_Witness ==
    /\ AptDone /\ apt.fn = "InstallAptPackages"
    /\ \E k \in Repairs :
          /\ Len(apt.log) = k + 2
          /\ FailedWith(k + 2, dpkgErr)

\* The runs runAptGetWithDowngradeRetrial made.
RetrialRuns ==
    {k \in AptGetRuns : apt.log[k].via = "runAptGetWithDowngradeRetrial"}

HasAllowDowngrades(k) ==
    \E i \in 1 .. Len(apt.log[k].cmd.Args) :
        apt.log[k].cmd.Args[i] = "--allow-downgrades"

\* runAptGetWithDowngradeRetrial has returned to its caller after run k.
RetrialReturned(k) ==
    k = MaxOf(RetrialRuns) => apt.pc \in {"repair", "return", "done"}

\* C27: runAptGetWithDowngradeRetrial makes a second run, with the same
\* arguments and --allow-downgrades after them, exactly when its first run
\* failed with the downgrade message in stderr; it makes no third run, and
\* what it returns is the result of the last run it made.
C27_DowngradeRetrial ==
    /\ \A k \in RetrialRuns :
          IF HasAllowDowngrades(k)
          THEN /\ k - 1 \in RetrialRuns
               /\ ~HasAllowDowngrades(k - 1)
               /\ FailedWith(k - 1, DowngradeErr)
               /\ apt.log[k].cmd.Args =
                     Append(apt.log[k - 1].cmd.Args, "--allow-downgrades")
          ELSE (FailedWith(k, DowngradeErr) /\ RetrialReturned(k))
                  => (k + 1 \in RetrialRuns /\ HasAllowDowngrades(k + 1))
    /\ (apt.pc \in {"repair", "return"} /\ RetrialRuns # {}) =>
          LET last == MaxOf(RetrialRuns) IN
          /\ apt.out.stdout = last
          /\ apt.out.stderr = apt.log[last].stderr
          /\ apt.out.err = apt.log[last].err

\* AptUpdates has returned after a first run that failed with the downgrade
\* message and a second one with --allow-downgrades.
C27_Witness ==
    /\ AptDone /\ apt.fn = "AptUpdates"
    /\ Len(apt.log) = 3
    /\ FailedWith(2, DowngradeErr)
    /\ HasAllowDowngrades(3)

\* The last apt-get attempt of the call.
LastAttempt == apt.log[MaxOf(AptGetRuns)]

\* What C28 says of the return value but for the arguments: nil exactly
\* when the last attempt succeeded, else an error with the stdout and
\* stderr of the last attempt.
NilIffLastSucceeded ==
    /\ AptGetRuns # {}
    /\ apt.ret.err.nil <=> ~LastAttempt.err
    /\ ~apt.ret.err.nil =>
          /\ apt.ret.err.stdout = MaxOf(AptGetRuns)
          /\ apt.ret.err.stderr = LastAttempt.stderr

\* C28 (as stated): InstallAptPackages returns nil exactly when its last
\* apt-get attempt succeeded, and else an error with the arguments, the
\* stdout and the stderr of that attempt.
C28_AsStated ==
    (AptDone /\ apt.fn = "InstallAptPackages") =>
        /\ NilIffLastSucceeded
        /\ ~apt.ret.err.nil =>
              <<apt.ret.err.cmd>> \o apt.ret.err.args = LastAttempt.cmd.Args

\* C28 (amended): InstallAptPackages returns nil exactly when its last
\* apt-get attempt succeeded, and else an error with the stdout and the
\* stderr of that attempt and the arguments of the call (install, -y, the
\* packages), which are those of the attempt but for --allow-downgrades.
C28_InstallReturn ==
    (AptDone /\ apt.fn = "InstallAptPackages") =>
        /\ NilIffLastSucceeded
        /\ ~apt.ret.err.nil =>
              /\ apt.ret.err.args = <<"install", "-y">> \o apt.in
              /\ LastAttempt.cmd.Args \in
                    {<<apt.ret.err.cmd>> \o apt.ret.err.args,
                     <<apt.ret.err.cmd>> \o apt.ret.err.args
                         \o <<"--allow-downgrades">>}

\* InstallAptPackages has returned nil after a first install that failed
\* with the dpkg message, the repair, and a retry that succeeded.
C28_Witness ==
    /\ AptDone /\ apt.fn = "InstallAptPackages"
    /\ Len(apt.log) = 3
    /\ FailedWith(1, dpkgErr)
    /\ 2 \in Repairs
    /\ ~apt.log[3].err
    /\ apt.ret.err.nil

\* The value of variable name in environment env: that of its last entry.
Getenv(env, name) ==
    LET at == {i \in 1 .. Len(env) :
                  env[i] \in {name \o "=noninteractive", name \o "=dialog"}}
    IN  IF at = {} THEN "" ELSE env[MaxOf(at)]

\* C29: every apt-get command the four functions run, the retries after a
\* repair and those with --allow-downgrades among them, has
\* DEBIAN_FRONTEND=noninteractive in its environment.
C29_NonInteractive ==
    \A k \in AptGetRuns :
        /\ apt.log[k].cmd.EnvSet
        /\ Getenv(apt.log[k].cmd.Env, "DEBIAN_FRONTEND")
              = "DEBIAN_FRONTEND=noninteractive"

\* InstallAptPackages, in an agent whose own environment has
\* DEBIAN_FRONTEND=dialog, has run apt-get four times: twice before the
\* repair and twice after, each second time with --allow-downgrades.
C29_Witness ==
    /\ AptDone /\ apt.fn = "InstallAptPackages"
    /\ apt.environ = <<"DEBIAN_FRONTEND=dialog">>
    /\ Cardinality(AptGetRuns) = 4
    /\ HasAllowDowngrades(2) /\ HasAllowDowngrades(5)

\* ---------------------------------------------------------------------
\* runTaskLoop: registration before the stream

\* C30: whenever a pass of runTaskLoop has opened the task-notification
\* stream, at the start of the agent or after the flag came back to true,
\* registerAgent was called and returned earlier in that pass.
C30_RegisteredBeforeStream ==
    (taskPc = "signal" /\ pass.act = "opened") => pass.registered

\* ---------------------------------------------------------------------
\* runServiceLoop's start gate and the signal of runTaskLoop

\* C31: once runTaskLoop has finished its first pass, runServiceLoop is
\* past its receive from c: the signal sent at the end of that pass was
\* received, in whatever order the two goroutines took their steps.  (If
\* the receive is still pending after a later pass it was pending after
\* the first one too: nothing but that send moves runServiceLoop on.)
C31_GateOpenAfterFirstPass ==
    (Running /\ taskPc = "watch") => mainPc \notin {"svc_recv", "svc_gate"}

\* ---------------------------------------------------------------------
\* runTaskLoop: one open client at a time

\* C32: a pass of runTaskLoop that called NewClient, whether the call
\* succeeded (and WaitForTaskNotification was started) or failed, found the
\* variable nil or holding a closed client: no client is created while the
\* previous one is open, so at most one client is open at any time.
C32_OneOpenClient ==
    /\ (taskPc = "signal" /\ pass.act \in {"opened", "create_failed"})
          => pass.before \in {"nil", "closed"}
    /\ (taskPc = "signal" /\ pass.before = "open")
          => taskNotificationClient \in {"open", "closed"}

\* A pass has opened a new client where the variable held a closed one:
\* the flag was true, then false, then true again.
C32_Witness ==
    /\ taskPc = "signal"
    /\ pass.act = "opened" /\ pass.before = "closed"
    /\ taskNotificationClient = "open"

\* ---------------------------------------------------------------------
\* validate: what it leaves in managedRepository

\* The resource is an apt repository with a GPG key.
AptWithKey == resource.type = "apt" /\ resource.repo.GpgKey # ""

\* C33: after a validate that returned ManagedResources, RepoChecksum is
\* the SHA-256 of RepoFileContents and RepoFilePath is the template of the
\* family filled with the first ten characters of RepoChecksum; for apt
\* with a GPG key GpgChecksum is the SHA-256 of the serialized key and
\* GpgFilePath is /etc/apt/trusted.gpg.d/osconfig_added_<GpgChecksum>.gpg;
\* for apt without a key and for the other families checkState and
\* enforceState find their key-file guard false.
C33_ManagedRepository ==
    \A run \in RunsMade :
        run.ok =>
            /\ run.mr.RepoChecksum = checksum(run.mr.RepoFileContents)
            /\ run.mr.RepoFilePath =
                  Sprintf(RepoFormat(resource.type),
                          FirstTen(run.mr.RepoChecksum))
            /\ AptWithKey =>
                  /\ run.mr.GpgFileContents = run.host.key
                  /\ run.mr.GpgChecksum = checksum(run.host.key)
                  /\ run.mr.GpgFilePath =
                        <<"/etc/apt/trusted.gpg.d", "osconfig_added_",
                          run.mr.GpgChecksum, ".gpg">>
                  /\ KeyFileApplies(run.mr)
            /\ ~AptWithKey => ~KeyFileApplies(run.mr)

\* validate has returned ManagedResources twice on one apt resource with a
\* key, the second time on what the first left and with another keyring.
C33_Witness ==
    /\ AptWithKey
    /\ validation.second.made
    /\ validation.first.ok /\ validation.second.ok
    /\ validation.second.prior = validation.first.mr
    /\ validation.first.mr.GpgChecksum = checksum("keyring 1")
    /\ validation.second.mr.GpgChecksum = checksum("keyring 2")
    /\ validation.second.mr.GpgFilePath =
          <<aptGPGDir, "osconfig_added_", checksum("keyring 2"), ".gpg">>

\* ---------------------------------------------------------------------
\* enforceState: what a failed call leaves

\* C34: when enforceState has returned an error, the key file and the repo
\* file are what they were when it was called.
C34_ErrorLeavesFiles ==
    (Returned("enforce") /\ LastCall.err) => files = before

\* ---------------------------------------------------------------------
\* apt-get: how many commands one call launches

\* The apt-get runs before the repair (all of them when there is none),
\* and those after it.
FirstRound == {k \in AptGetRuns : \A d \in Repairs : k < d}

SecondRound == AptGetRuns \ FirstRound

\* C35: InstallAptPackages launches apt-get at most four times, two rounds
\* of at most two runs, and dpkg at most once; RemoveAptPackages launches
\* apt-get at most twice and dpkg at most once, never with
\* --allow-downgrades; the round of InstallAptPackages after the repair
\* starts without --allow-downgrades whatever the first round added.
C35_LaunchCounts ==
    /\ apt.fn = "InstallAptPackages" =>
          /\ Cardinality(AptGetRuns) <= 4
          /\ Cardinality(FirstRound) <= 2 /\ Cardinality(SecondRound) <= 2
          /\ Cardinality(Repairs) <= 1
          /\ \A d \in Repairs :
                d + 1 \in AptGetRuns =>
                    /\ ~HasAllowDowngrades(d + 1)
                    /\ apt.log[d + 1].cmd.Args = OriginalArgs
    /\ apt.fn = "RemoveAptPackages" =>
          /\ Cardinality(AptGetRuns) <= 2
          /\ Cardinality(Repairs) <= 1
          /\ \A k \in AptGetRuns : ~HasAllowDowngrades(k)

\* InstallAptPackages has returned after five commands: apt-get, apt-get
\* with --allow-downgrades, dpkg, apt-get without it (failing with the
\* downgrade message again), apt-get with it.
C35_Witness ==
    /\ AptDone /\ apt.fn = "InstallAptPackages"
    /\ Len(apt.log) = 5
    /\ HasAllowDowngrades(2)
    /\ Repairs = {3}
    /\ ~HasAllowDowngrades(4) /\ FailedWith(4, DowngradeErr)
    /\ HasAllowDowngrades(5)

====
